---------------------------- MODULE Spec2Model ----------------------------
(***************************************************************************)
(* Catalog fetch loops and product matchers of the Shopify relay server.   *)
(*                                                                         *)
(*   src/server.js          since_id fetch loop and find()-based matcher   *)
(*   src/unnamed/part_000   page_info fetch loop, findMatches (scored)     *)
(*   src/unnamed/part_001   fetchAllProducts behind the TTL cache          *)
(*   src/unnamed/part_002   page_info fetch loop, name / SKU-prefix filter *)
(*                                                                         *)
(* JavaScript strings are sequences of one-character strings.  undefined   *)
(* is the value Undefined.                                                 *)
(***************************************************************************)
EXTENDS Integers, Sequences, FiniteSets, TLC

(***************************************************************************)
(* JavaScript values and string operations                                 *)
(***************************************************************************)

\* undefined / null: a one-element sequence no string of characters equals
Undefined == <<"undefined">>

\* the empty string ''
Empty == <<>>

\* JavaScript truthiness of a string-or-undefined value
Truthy(v) == v # Undefined /\ v # Empty

\* v || d
OrElse(v, d) == IF Truthy(v) THEN v ELSE d

\* obj.f: undefined when the object has no such property
Prop(obj, f) == IF f \in DOMAIN obj THEN obj[f] ELSE Undefined

\* obj.f !== undefined
Has(obj, f) == f \in DOMAIN obj

UpperLetters ==
  <<"A","B","C","D","E","F","G","H","I","J","K","L","M",
    "N","O","P","Q","R","S","T","U","V","W","X","Y","Z">>

LowerLetters ==
  <<"a","b","c","d","e","f","g","h","i","j","k","l","m",
    "n","o","p","q","r","s","t","u","v","w","x","y","z">>

\* position of c in the alphabet a, 0 when it is not in it
LetterIndex(a, c) ==
  IF \E i \in 1..Len(a) : a[i] = c
    THEN CHOOSE i \in 1..Len(a) : a[i] = c
    ELSE 0

LowerChar(c) ==
  IF LetterIndex(UpperLetters, c) = 0 THEN c
  ELSE LowerLetters[LetterIndex(UpperLetters, c)]

UpperChar(c) ==
  IF LetterIndex(LowerLetters, c) = 0 THEN c
  ELSE UpperLetters[LetterIndex(LowerLetters, c)]

\* String.prototype.toLowerCase
ToLowerCase(s) == [i \in 1..Len(s) |-> LowerChar(s[i])]

\* String.prototype.toUpperCase
ToUpperCase(s) == [i \in 1..Len(s) |-> UpperChar(s[i])]

\* the characters \s matches
WhiteSpace == {" "}

\* String.prototype.indexOf, 1-based; 0 when sub does not occur
IndexOf(s, sub) ==
  LET hits == {i \in 1..(Len(s) - Len(sub) + 1) :
                 SubSeq(s, i, i + Len(sub) - 1) = sub}
  IN IF hits = {} THEN 0 ELSE CHOOSE i \in hits : \A j \in hits : i <= j

\* String.prototype.includes
Includes(s, sub) == IndexOf(s, sub) # 0

\* String.prototype.startsWith
StartsWith(s, p) == Len(p) <= Len(s) /\ SubSeq(s, 1, Len(p)) = p

\* String.prototype.replace with a string pattern: the first occurrence only
ReplaceFirst(s, pat, rep) ==
  LET i == IndexOf(s, pat)
  IN IF i = 0 THEN s
     ELSE SubSeq(s, 1, i - 1) \o rep \o SubSeq(s, i + Len(pat), Len(s))

\* String.prototype.replace(/[set]/g, ''): every character of the set removed
RemoveAll(s, set) == SelectSeq(s, LAMBDA c : c \notin set)

\* String.prototype.split with a non-empty string separator
RECURSIVE Split(_, _)
Split(s, sep) ==
  LET i == IndexOf(s, sep)
  IN IF i = 0 THEN <<s>>
     ELSE <<SubSeq(s, 1, i - 1)>> \o Split(SubSeq(s, i + Len(sep), Len(s)), sep)

\* arr[k] with k 0-based: undefined past the end
At(arr, k) == IF k + 1 <= Len(arr) THEN arr[k + 1] ELSE Undefined

RECURSIVE TrimStart(_)
TrimStart(s) ==
  IF s # <<>> /\ Head(s) \in WhiteSpace THEN TrimStart(Tail(s)) ELSE s

RECURSIVE TrimEnd(_)
TrimEnd(s) ==
  IF s # <<>> /\ s[Len(s)] \in WhiteSpace
    THEN TrimEnd(SubSeq(s, 1, Len(s) - 1))
    ELSE s

\* String.prototype.trim
Trim(s) == TrimEnd(TrimStart(s))

\* s.replace(/^<brand>\s*-\s*/i, ''): brand is given in lower case
StripBrandPrefix(s, brand) ==
  IF ~StartsWith(ToLowerCase(s), brand) THEN s
  ELSE LET rest == TrimStart(SubSeq(s, Len(brand) + 1, Len(s)))
       IN IF rest # <<>> /\ Head(rest) = "-" THEN TrimStart(Tail(rest)) ELSE s

(***************************************************************************)
(* part_000: findMatches, the scored matcher                               *)
(***************************************************************************)

\* points a name match adds to matchScore
NamePoints == 10

\* points a SKU match adds to matchScore
SkuPoints == 20

BrandDash == <<"L","O","F","T",".","7","3"," ","-"," ">>
Brand == <<"L","O","F","T",".","7","3">>
BrandNoDot == <<"L","O","F","T","7","3">>
Dash == <<" ","-"," ">>

\* the variations of the CSV name, in the order they are tried
NameVariations(csvName) ==
  << csvName,
     ReplaceFirst(csvName, BrandDash, Empty),
     ReplaceFirst(csvName, Brand, BrandNoDot),
     ReplaceFirst(csvName, Dash, <<" ">>),
     OrElse(At(Split(csvName, Dash), 1), csvName),
     ToLowerCase(csvName),
     ToUpperCase(csvName) >>

\* the variations of the CSV SKU, the falsy ones filtered out
SkuVariations(csvSku) ==
  SelectSeq(<< csvSku,
               At(Split(csvSku, Dash), 0),
               At(Split(csvSku, Dash), 1),
               RemoveAll(csvSku, {" "}),
               RemoveAll(csvSku, {"-"}) >>,
            Truthy)

\* fault injection for NameFlat: a name rule that accepts equality only
NameMatchesExactOnly(shopifyTitle, variation) ==
  Truthy(variation) /\ ToLowerCase(shopifyTitle) = ToLowerCase(variation)

\* the condition under which a name variation matches a product title
NameMatches(shopifyTitle, variation) ==
  Truthy(variation) /\ Includes(ToLowerCase(shopifyTitle), ToLowerCase(variation))

\* the condition under which a SKU variation matches a variant SKU
SkuMatches(variantSku, skuVar) ==
  /\ Truthy(skuVar)
  /\ Truthy(variantSku)
  /\ \/ variantSku = skuVar
     \/ Includes(variantSku, skuVar)
     \/ Includes(skuVar, variantSku)

\* the first element of seq satisfying Test(_), as a 0- or 1-element sequence
FirstWhere(seq, Test(_)) ==
  LET hits == {i \in 1..Len(seq) : Test(seq[i])}
  IN IF hits = {} THEN <<>>
     ELSE <<seq[CHOOSE i \in hits : \A j \in hits : i <= j]>>

\* the name loop: the first matching variation gives one reason, then break
NameReasons(shopifyProduct, nameVariations) ==
  LET shopifyTitle == OrElse(Prop(shopifyProduct, "title"), Empty)
      hit == FirstWhere(nameVariations, LAMBDA v : NameMatches(shopifyTitle, v))
  IN [i \in 1..Len(hit) |-> [rule |-> "Name match", variation |-> hit[i]]]

\* the inner SKU loop for one variant: the first matching variation gives one
\* reason, and its break leaves the inner loop only
VariantSkuReasons(variant, skuVariations) ==
  LET variantSku == OrElse(Prop(variant, "sku"), Empty)
      hit == FirstWhere(skuVariations, LAMBDA v : SkuMatches(variantSku, v))
  IN [i \in 1..Len(hit) |-> [rule |-> "SKU match", variation |-> hit[i]]]

\* the outer SKU loop: every variant of the product is scanned
RECURSIVE SkuReasons(_, _)
SkuReasons(variants, skuVariations) ==
  IF variants = <<>> THEN <<>>
  ELSE VariantSkuReasons(Head(variants), skuVariations)
         \o SkuReasons(Tail(variants), skuVariations)

\* shopifyProduct.variants || []
VariantsOrNone(shopifyProduct) ==
  IF Has(shopifyProduct, "variants") THEN shopifyProduct.variants ELSE <<>>

\* fault injection for ScoreExplained: the SKU points replace the name
\* points instead of adding to them
ScoreOfExclusive(nameReasons, skuReasons) ==
  IF skuReasons = <<>> THEN NamePoints * Len(nameReasons)
  ELSE SkuPoints * Len(skuReasons)

\* matchScore after both loops: += 10 per name reason, += 20 per SKU reason
ScoreOf(nameReasons, skuReasons) ==
  NamePoints * Len(nameReasons) + SkuPoints * Len(skuReasons)

\* one iteration of the loop over shopifyProducts, before the score test.
\* shopifyProduct is a reference: the index of the product in shopifyProducts
Candidate(csvName, csvSku, shopifyProducts, k) ==
  LET shopifyProduct == shopifyProducts[k]
      nameReasons == NameReasons(shopifyProduct, NameVariations(csvName))
      skuReasons == SkuReasons(VariantsOrNone(shopifyProduct), SkuVariations(csvSku))
  IN [ shopifyProduct |-> k,
       matchScore |-> ScoreOf(nameReasons, skuReasons),
       matchReasons |-> nameReasons \o skuReasons ]

\* fault injection for ThresholdKept: a test that lets a score of 0 through
NotNegative(matchScore) == matchScore >= 0

\* the test that lets a candidate into matches
AboveThreshold(matchScore) == matchScore > 0

\* Array.prototype.sort with (a, b) => b.matchScore - a.matchScore is stable:
\* an element goes after every element whose score is not lower
RECURSIVE InsertByScore(_, _)
InsertByScore(sorted, m) ==
  IF sorted = <<>> THEN <<m>>
  ELSE IF Head(sorted).matchScore >= m.matchScore
         THEN <<Head(sorted)>> \o InsertByScore(Tail(sorted), m)
         ELSE <<m>> \o sorted

RECURSIVE SortByScore(_)
SortByScore(matches) ==
  IF matches = <<>> THEN <<>>
  ELSE InsertByScore(SortByScore(SubSeq(matches, 1, Len(matches) - 1)),
                     matches[Len(matches)])

\* function findMatches(csvProduct, shopifyProducts)
FindMatches(csvProduct, shopifyProducts) ==
  LET csvName == OrElse(Prop(csvProduct, "name"), Empty)
      csvSku == OrElse(Prop(csvProduct, "sku"), Empty)
      all == [i \in 1..Len(shopifyProducts) |->
                Candidate(csvName, csvSku, shopifyProducts, i)]
  IN SortByScore(SelectSeq(all, LAMBDA m : AboveThreshold(m.matchScore)))

(***************************************************************************)
(* server.js: the find()-based matcher                                     *)
(***************************************************************************)

BrandLower == <<"l","o","f","t",".","7","3">>
BrandNoDotLower == <<"l","o","f","t","7","3">>

\* csvName with the brand prefix removed (strategy 3)
NameWithoutBrand(csvName) ==
  Trim(StripBrandPrefix(StripBrandPrefix(csvName, BrandLower), BrandNoDotLower))

\* the name strategies 1 to 5 of the find() callback
ServerNameMatches(shopifyTitle, csvName) ==
  LET title == ToLowerCase(shopifyTitle)
      name == ToLowerCase(csvName)
      core == ToLowerCase(NameWithoutBrand(csvName))
  IN \/ shopifyTitle = csvName
     \/ title = name
     \/ title = core
     \/ Includes(title, core)
     \/ Includes(title, name)
     \/ Includes(name, title)

\* strategy 6 for one variant
ServerSkuMatches(variant, csvSku) ==
  /\ Truthy(Prop(variant, "sku"))
  /\ LET variantSku == Trim(variant.sku)
     IN \/ variantSku = csvSku
        \/ Includes(variantSku, csvSku)
        \/ Includes(csvSku, variantSku)
        \/ ToLowerCase(RemoveAll(variantSku, WhiteSpace \cup {"-"}))
             = ToLowerCase(RemoveAll(csvSku, WhiteSpace \cup {"-"}))

\* the callback given to allProducts.find
ServerMatches(csvName, csvSku, shopifyProduct) ==
  \/ ServerNameMatches(Trim(OrElse(Prop(shopifyProduct, "title"), Empty)), csvName)
  \/ /\ Truthy(csvSku)
     /\ Has(shopifyProduct, "variants")
     /\ \E j \in 1..Len(shopifyProduct.variants) :
          ServerSkuMatches(shopifyProduct.variants[j], csvSku)

\* allProducts.find(...): the index of the first product the callback accepts,
\* 0 when find returns undefined
ServerFind(csvProduct, allProducts) ==
  LET csvName == Trim(OrElse(Prop(csvProduct, "name"), Empty))
      csvSku == Trim(OrElse(Prop(csvProduct, "sku"), Empty))
      hits == {i \in 1..Len(allProducts) :
                 ServerMatches(csvName, csvSku, allProducts[i])}
  IN IF hits = {} THEN 0 ELSE CHOOSE i \in hits : \A j \in hits : i <= j

(***************************************************************************)
(* The inputs: catalog entries, query records, and the remote              *)
(***************************************************************************)

\* longest catalog of hand-written entries the remote holds
MaxCatalog == 2

\* longest list of query records a request carries
MaxQueries == 2

AuroraDress == <<"A","u","r","o","r","a"," ","D","r","e","s","s">>

\* products as products.json returns them, without their id
ProductPool ==
  { [ title |-> BrandDash \o AuroraDress,
      variants |-> << [ id |-> 1, sku |-> <<"A","U","R","-","0","0","1">>,
                        inventory_quantity |-> 5 ] >> ],
    [ title |-> AuroraDress,
      variants |-> << [ id |-> 1, sku |-> <<"A","U","R","-","0","0","1","-","S">>,
                        inventory_quantity |-> 2, inventory_item_id |-> 71 ],
                      [ id |-> 2, sku |-> <<"A","U","R","-","0","0","1","-","M">>,
                        inventory_quantity |-> 3 ] >> ],
    [ title |-> AuroraDress \o <<" ","R","e","d">>,
      variants |-> << [ id |-> 1, sku |-> <<"A","B","C","-","1","2","3">>,
                        inventory_quantity |-> 1 ] >> ],
    [ title |-> <<"T","o","p">> ] }

\* the query records a request may carry
QueryPool ==
  { [ name |-> AuroraDress, sku |-> <<"A","U","R","0","0","1">> ],
    [ name |-> BrandDash \o AuroraDress, sku |-> <<"A","U","R","-","0","0","1">> ],
    [ sku |-> <<"a","b","c","-","1","2","3">> ],
    [ name |-> <<"Z","e","d">> ],
    [ other |-> Empty ] }

\* the sequences over S of length at most n
SeqsUpTo(S, n) == UNION { [1..k -> S] : k \in 0..n }

\* a product with its id: the remote numbers its products in catalog order,
\* and the variants of product i from 10 * i + 1
WithId(p, i) ==
  [f \in DOMAIN p \cup {"id"} |->
     IF f = "id" THEN i
     ELSE IF f = "variants"
       THEN [j \in 1..Len(p.variants) |-> [p.variants[j] EXCEPT !.id = 10 * i + j]]
     ELSE p[f]]

Catalog(ps) == [i \in 1..Len(ps) |-> WithId(ps[i], i)]

SmallCatalogs == { Catalog(ps) : ps \in SeqsUpTo(ProductPool, MaxCatalog) }

QueryLists == SeqsUpTo(QueryPool, MaxQueries)

\* the productNames and skuPrefixes a part_001 / part_002 request may carry
NameLists == { <<>>, <<AuroraDress>>, <<<<"Z","e","d">>>> }

PrefixLists == { <<>>, <<<<"A","U","R">>>> }

\* limit=250 in every products.json request
PageLimit == 250

\* The remote: the catalog it holds, the body products/count.json answers
\* with, the longest page it is willing to return, and whether it is stuck
\* (it answers every page request with its first page and, under page_info
\* pagination, always advertises a next page).
HonestRemotes ==
  { [ products |-> c, countData |-> [count |-> Len(c)],
      pageLen |-> PageLimit, stuck |-> FALSE ] : c \in SmallCatalogs }

\* a catalog of n plain products
BulkCatalog(n) == [i \in 1..n |-> [id |-> i, title |-> <<"B">>, variants |-> <<>>]]

\* remotes that return one product a page, that report a count that is
\* right, stale or missing, and that may be stuck
OddRemotes ==
  { [ products |-> BulkCatalog(MaxCatalog), countData |-> cd,
      pageLen |-> 1, stuck |-> st ] :
      cd \in { [count |-> MaxCatalog], [count |-> MaxCatalog + 1],
               [errors |-> <<"N","o","t"," ","F","o","u","n","d">>] },
      st \in BOOLEAN }

\* remotes whose catalog fills exactly one page, with a count that is right,
\* stale or missing
FullPageRemotes ==
  { [ products |-> BulkCatalog(PageLimit), countData |-> cd,
      pageLen |-> PageLimit, stuck |-> FALSE ] :
      cd \in { [count |-> PageLimit], [count |-> PageLimit + 1],
               [errors |-> <<"N","o","t"," ","F","o","u","n","d">>] } }

\* a remote that lists its products by descending id and reports no count
UnsortedRemotes ==
  { [ products |-> [i \in 1..MaxCatalog |-> BulkCatalog(MaxCatalog)[MaxCatalog + 1 - i]],
      countData |-> [errors |-> <<"N","o","t"," ","F","o","u","n","d">>],
      pageLen |-> PageLimit, stuck |-> FALSE ] }

Remotes == HonestRemotes \cup OddRemotes \cup FullPageRemotes \cup UnsortedRemotes

(***************************************************************************)
(* State                                                                   *)
(***************************************************************************)

\* the requests the server may be handling at once
Requests == {"r1", "r2"}

VARIABLES
  remote,        \* the remote shop (see Remotes)
  req,           \* req[r]: the local variables of the handler serving request r
  shopifyCache,  \* part_001: the process-wide cache
  now            \* Date.now()

vars == <<remote, req, shopifyCache, now>>

\* page_info = null
NoCursor == <<>>

\* no response sent yet
NoResponse == [status |-> 0]

\* the locals of a handler before it runs; the field names are the handlers'
\* variable names.  sent is the list of the requests made to the remote so
\* far, pageAnswers how each page request was answered ("ok", "status" for a
\* non-success status, "throws"), pageIds the ids of the products each answer
\* brought, in the order of the page, delays the number of pages fetched at
\* each rate-limit pause taken, and cleared whether the cache was cleared
\* while the request was fetching the catalog.
Locals(handler, csvProducts, productNames, skuPrefixes) ==
  [ handler |-> handler,
    pc |-> "start",
    csvProducts |-> csvProducts,
    productNames |-> productNames,
    skuPrefixes |-> skuPrefixes,
    countData |-> [count |-> 0],
    allProducts |-> <<>>,
    sinceId |-> 0,
    pageInfo |-> NoCursor,
    page_info |-> NoCursor,
    products |-> <<>>,
    inventoryData |-> <<>>,
    chunks |-> <<>>,
    pageCount |-> 0,
    hasMore |-> TRUE,
    hasNextPage |-> TRUE,
    matches |-> <<>>,
    results |-> <<>>,
    matchCount |-> 0,
    totalMatches |-> 0,
    i |-> 0,
    res |-> NoResponse,
    sent |-> <<>>,
    pageAnswers |-> <<>>,
    pageIds |-> <<>>,
    delays |-> <<>>,
    cleared |-> FALSE ]

\* a request that never arrives
Idle == [Locals("none", <<>>, <<>>, <<>>) EXCEPT !.pc = "idle"]

\* req with the locals of request r replaced
Set(r, locals) == [req EXCEPT ![r] = locals]

\* res.status(500).json({ success: false, ... }) in a catch block
Fail(l) == [l EXCEPT !.pc = "done", !.res = [status |-> 500, success |-> FALSE]]

(***************************************************************************)
(* The remote's answers                                                    *)
(***************************************************************************)

Min(a, b) == IF a < b THEN a ELSE b

\* the greatest element of a non-empty set of numbers: Math.max(...ids)
Max(S) == CHOOSE x \in S : \A y \in S : y <= x

\* a fetch that rejects (network error), caught by the enclosing try
Throws == [throws |-> TRUE]

\* a non-success answer
NotOk == [throws |-> FALSE, ok |-> FALSE, status |-> 500]

\* how a page request was answered
AnswerKind(response) ==
  IF response.throws THEN "throws" ELSE IF response.ok THEN "ok" ELSE "status"

\* the locals l with the answer to a page request noted
Heard(l, response) ==
  [l EXCEPT !.pageAnswers = Append(@, AnswerKind(response)),
            !.pageIds = Append(@, IF AnswerKind(response) # "ok" THEN <<>>
                                  ELSE [k \in 1..Len(response.products) |->
                                          response.products[k].id])]

\* products/count.json
CountResponses == { Throws, [throws |-> FALSE, ok |-> TRUE, body |-> remote.countData] }

\* the first n elements of seq
Take(seq, n) == SubSeq(seq, 1, Min(n, Len(seq)))

\* the page the remote returns for products.json?limit=..&since_id=..
SinceIdPage(limit, sinceId) ==
  LET after == IF remote.stuck THEN remote.products
               ELSE SelectSeq(remote.products, LAMBDA p : p.id > sinceId)
  IN Take(after, Min(limit, remote.pageLen))

SinceIdResponses(limit, sinceId) ==
  { Throws, NotOk,
    [throws |-> FALSE, ok |-> TRUE, products |-> SinceIdPage(limit, sinceId), link |-> <<>>] }

\* The Link header is the list of its links, each with its rel and, when its
\* URL has one, its page_info parameter; a missing header is the empty list.
\* Page k of the catalog cut into pages of size n:
CursorPage(n, k) == SubSeq(remote.products, (k - 1) * n + 1, Min(k * n, Len(remote.products)))

\* the links of the answer to page k
CursorLinks(n, k) ==
  (IF k > 1 THEN <<[rel |-> "previous", page_info |-> <<k - 1>>]>> ELSE <<>>)
  \o (IF remote.stuck \/ k * n < Len(remote.products)
        THEN <<[rel |-> "next", page_info |-> <<k + 1>>]>> ELSE <<>>)

\* the answers to products.json?limit=..[&page_info=..]
CursorResponses(limit, pageInfo) ==
  LET n == Min(limit, remote.pageLen)
      k == IF pageInfo = NoCursor THEN 1 ELSE pageInfo[1]
  IN { Throws, NotOk,
       [throws |-> FALSE, ok |-> TRUE,
        products |-> CursorPage(n, IF remote.stuck THEN 1 ELSE k),
        link |-> CursorLinks(n, k)] }

\* the quantity the remote reports when an inventory lookup succeeds
LiveAvailable == 4

\* the answers to inventory_levels.json?inventory_item_ids=..: the remote
\* knows a level for each of the items, or for none
InventoryResponses(itemIds) ==
  { Throws, NotOk,
    [throws |-> FALSE, ok |-> TRUE, inventory_levels |-> <<>>],
    [throws |-> FALSE, ok |-> TRUE,
     inventory_levels |-> [k \in 1..Len(itemIds) |->
                             [inventory_item_id |-> itemIds[k],
                              available |-> LiveAvailable]]] }

\* every variant of the remote's catalog
\* the variants of products[lo..hi], in order, by halving the range
RECURSIVE VariantsOfRange(_, _, _)
VariantsOfRange(products, lo, hi) ==
  IF lo > hi THEN <<>>
  ELSE IF lo = hi
    THEN (IF Has(products[lo], "variants") THEN products[lo].variants ELSE <<>>)
  ELSE VariantsOfRange(products, lo, (lo + hi) \div 2)
       \o VariantsOfRange(products, (lo + hi) \div 2 + 1, hi)

AllVariants(products) == VariantsOfRange(products, 1, Len(products))

\* the answers to variants.json?ids=..
VariantResponses(ids) ==
  { Throws, NotOk,
    [throws |-> FALSE, ok |-> TRUE,
     variants |-> SelectSeq(AllVariants(remote.products),
                            LAMBDA v : \E k \in 1..Len(ids) : ids[k] = v.id)] }

(***************************************************************************)
(* server.js: POST /api/shopify/products-availability                      *)
(***************************************************************************)

\* the safety limit of the since_id loop
ServerPageCap == 100

\* the loop pauses after every page whose number is a multiple of this
PauseEvery == 10

\* fault injection for PauseAfterEveryTenth: the pause comes a page late
ShouldPauseLate(pageCount, hasMore) == pageCount % PauseEvery = 1 /\ hasMore

\* if (pageCount % 10 === 0 && hasMore)
ShouldPause(pageCount, hasMore) == pageCount % PauseEvery = 0 /\ hasMore

\* fault injection for PageCapKept: the loop without its safety limit
ServerLoopGuardNoCap(hasMore, pageCount) == hasMore

\* while (hasMore && pageCount < 100)
ServerLoopGuard(hasMore, pageCount) == hasMore /\ pageCount < ServerPageCap

\* fault injection for LoopStopsWhenDone: a safety check that wants the total
\* exceeded
ReachedTotalStrict(allProducts, countData) ==
  Has(countData, "count") /\ Len(allProducts) > countData.count

\* the safety check: allProducts.length >= totalProducts, which is false when
\* countData.count is undefined
ReachedTotal(allProducts, countData) ==
  Has(countData, "count") /\ Len(allProducts) >= countData.count

\* the handler is entered: the count request is made (lines 140-154)
ServerStart(r) ==
  LET l == req[r]
  IN /\ l.handler = "server"
     /\ l.pc = "start"
     /\ req' = Set(r, [l EXCEPT !.pc = "awaitCount",
                                !.sent = Append(@, [kind |-> "count"])])
     /\ UNCHANGED <<remote, shopifyCache, now>>

\* the count answer arrives; the loop variables are initialised (155-165)
ServerCountResponse(r) ==
  LET l == req[r]
  IN /\ l.handler = "server"
     /\ l.pc = "awaitCount"
     /\ \E response \in CountResponses :
          req' = Set(r, IF response.throws THEN Fail(l)
                        ELSE [l EXCEPT !.pc = "loop",
                                       !.countData = response.body,
                                       !.allProducts = <<>>,
                                       !.sinceId = 0,
                                       !.pageCount = 0,
                                       !.hasMore = TRUE])
     /\ UNCHANGED <<remote, shopifyCache, now>>

\* one more turn of the loop: the page request is made (167-179)
ServerRequestPage(r) ==
  LET l == req[r]
  IN /\ l.handler = "server"
     /\ l.pc = "loop"
     /\ ServerLoopGuard(l.hasMore, l.pageCount)
     /\ req' = Set(r, [l EXCEPT !.pc = "awaitPage",
                                !.pageCount = @ + 1,
                                !.sent = Append(@, [kind |-> "page",
                                                    since_id |-> l.sinceId])])
     /\ UNCHANGED <<remote, shopifyCache, now>>

\* the locals after a page that was answered with success (186-217)
\* fault injection for SinceIdFollowsMaxId: the id of the last product
LastProductId(products) == products[Len(products)].id

\* Math.max(...data.products.map(p => p.id)) (197)
MaxProductId(products) == Max({products[k].id : k \in 1..Len(products)})

\* fault injection for OnePageForFullPage: no comparison with the count
ServerTakePageNoCheck(l, products) ==
  [l EXCEPT !.allProducts = @ \o products,
            !.sinceId = IF Len(products) = 0 THEN @ ELSE MaxProductId(products),
            !.hasMore = Len(products) # 0,
            !.pc = IF ShouldPause(l.pageCount, Len(products) # 0)
                     THEN "pause" ELSE "loop"]

\* fault injection for SinceIdIncreases: since_id is left as it was
ServerTakePageSameSinceId(l, products) ==
  LET allProducts == l.allProducts \o products
      hasMore == Len(products) # 0 /\ ~ReachedTotal(allProducts, l.countData)
  IN [l EXCEPT !.allProducts = allProducts,
               !.hasMore = hasMore,
               !.pc = IF ShouldPause(l.pageCount, hasMore) THEN "pause" ELSE "loop"]

ServerTakePage(l, products) ==
  LET allProducts == l.allProducts \o products
      hasMore == Len(products) # 0 /\ ~ReachedTotal(allProducts, l.countData)
  IN [l EXCEPT !.allProducts = allProducts,
               !.sinceId = IF Len(products) = 0 THEN @ ELSE MaxProductId(products),
               !.hasMore = hasMore,
               !.pc = IF ShouldPause(l.pageCount, hasMore) THEN "pause" ELSE "loop"]

\* the page answer arrives (181-217)
ServerPageResponse(r) ==
  LET l == req[r]
  IN /\ l.handler = "server"
     /\ l.pc = "awaitPage"
     /\ \E response \in SinceIdResponses(PageLimit, l.sinceId) :
          req' = Set(r, Heard(IF response.throws \/ ~response.ok THEN Fail(l)
                              ELSE ServerTakePage(l, response.products),
                              response))
     /\ UNCHANGED <<remote, shopifyCache, now>>

\* the one-second pause is over (214-217)
ServerPause(r) ==
  LET l == req[r]
  IN /\ l.handler = "server"
     /\ l.pc = "pause"
     /\ req' = Set(r, [l EXCEPT !.pc = "loop", !.delays = Append(@, l.pageCount)])
     /\ UNCHANGED <<remote, shopifyCache, now>>

\* the inventory loop over the variants of the matched product (305-311):
\* variant.available is assigned on the product object itself
ServerSetAvailable(variants) ==
  [j \in 1..Len(variants) |->
     IF Has(variants[j], "inventory_quantity")
       THEN [f \in DOMAIN variants[j] \cup {"available"} |->
               IF f = "available" THEN variants[j].inventory_quantity
               ELSE variants[j][f]]
       ELSE variants[j]]

RECURSIVE SumQuantity(_)
SumQuantity(variants) ==
  IF variants = <<>> THEN 0
  ELSE (IF Has(Head(variants), "inventory_quantity")
          THEN Head(variants).inventory_quantity ELSE 0)
       + SumQuantity(Tail(variants))

\* fault injection for OneResultPerMatchedQuery: the result is filed under
\* its position in results instead of under the query it answers
ServerMatchOneByPosition(st, csvProducts, i) ==
  LET found == ServerFind(csvProducts[i], st.allProducts)
  IN IF st.threw \/ found = 0 THEN st
     ELSE IF ~Has(st.allProducts[found], "variants") THEN [st EXCEPT !.threw = TRUE]
     ELSE [st EXCEPT
             !.matchCount = @ + 1,
             !.results = Append(@, [csvProduct |-> Len(st.results) + 1,
                                    shopifyProduct |-> found,
                                    available |-> 0])]

\* one turn of the matching loop (242-324) for csvProducts[i].  In results,
\* csvProduct and shopifyProduct are references: the index of the query in
\* csvProducts and of the product in allProducts.  threw: the loop met a
\* matched product with no variants property, a TypeError.
ServerMatchOne(st, csvProducts, i) ==
  LET found == ServerFind(csvProducts[i], st.allProducts)
  IN IF st.threw \/ found = 0 THEN st
     ELSE IF ~Has(st.allProducts[found], "variants") THEN [st EXCEPT !.threw = TRUE]
     ELSE [st EXCEPT
             !.matchCount = @ + 1,
             !.allProducts[found].variants = ServerSetAvailable(@),
             !.results = Append(@, [csvProduct |-> i,
                                    shopifyProduct |-> found,
                                    available |->
                                      SumQuantity(st.allProducts[found].variants)])]

RECURSIVE ServerMatchLoop(_, _, _)
ServerMatchLoop(st, csvProducts, i) ==
  IF i > Len(csvProducts) THEN st
  ELSE ServerMatchLoop(ServerMatchOne(st, csvProducts, i), csvProducts, i + 1)

\* res.json({ success: true, results, stats }): the references in results are
\* serialised as the objects they point to
ServerBody(st, csvProducts) ==
  [ status |-> 200,
    success |-> TRUE,
    results |-> [k \in 1..Len(st.results) |->
                   [ csvProduct |-> csvProducts[st.results[k].csvProduct],
                     shopifyProduct |-> st.allProducts[st.results[k].shopifyProduct],
                     available |-> st.results[k].available ]],
    totalCsvProducts |-> Len(csvProducts),
    totalShopifyProducts |-> Len(st.allProducts),
    matchedProducts |-> st.matchCount ]

\* the loop has ended: matching and the response (220-353)
ServerMatch(r) ==
  LET l == req[r]
      st == ServerMatchLoop([allProducts |-> l.allProducts, results |-> <<>>,
                             matchCount |-> 0, threw |-> FALSE],
                            l.csvProducts, 1)
  IN /\ l.handler = "server"
     /\ l.pc = "loop"
     /\ ~ServerLoopGuard(l.hasMore, l.pageCount)
     /\ req' = Set(r, IF st.threw THEN Fail(l)
                      ELSE [l EXCEPT !.pc = "done",
                                     !.allProducts = st.allProducts,
                                     !.results = st.results,
                                     !.matchCount = st.matchCount,
                                     !.i = Len(l.csvProducts),
                                     !.res = ServerBody(st, l.csvProducts)])
     /\ UNCHANGED <<remote, shopifyCache, now>>

ServerNext(r) ==
  \/ ServerStart(r)
  \/ ServerCountResponse(r)
  \/ ServerRequestPage(r)
  \/ ServerPageResponse(r)
  \/ ServerPause(r)
  \/ ServerMatch(r)

(***************************************************************************)
(* server.js: GET /api/test-names                                          *)
(***************************************************************************)

\* the pages the model lets the loop of test-names ask for; the loop itself
\* has no limit
MaxPages == 4

\* while (hasMore)
TestNamesLoopGuard(hasMore) == hasMore

\* the handler is entered: the loop variables are initialised and the count
\* request is made (54-70)
TestNamesStart(r) ==
  LET l == req[r]
  IN /\ l.handler = "testnames"
     /\ l.pc = "start"
     /\ req' = Set(r, [l EXCEPT !.pc = "awaitCount",
                                !.allProducts = <<>>,
                                !.sinceId = 0,
                                !.pageCount = 0,
                                !.hasMore = TRUE,
                                !.sent = Append(@, [kind |-> "count"])])
     /\ UNCHANGED <<remote, shopifyCache, now>>

\* the count answer arrives (71-72)
TestNamesCountResponse(r) ==
  LET l == req[r]
  IN /\ l.handler = "testnames"
     /\ l.pc = "awaitCount"
     /\ \E response \in CountResponses :
          req' = Set(r, IF response.throws THEN Fail(l)
                        ELSE [l EXCEPT !.pc = "loop", !.countData = response.body])
     /\ UNCHANGED <<remote, shopifyCache, now>>

\* one more turn of the loop: the page request is made (77-88)
TestNamesRequestPage(r) ==
  LET l == req[r]
  IN /\ l.handler = "testnames"
     /\ l.pc = "loop"
     /\ TestNamesLoopGuard(l.hasMore)
     /\ l.pageCount < MaxPages
     /\ req' = Set(r, [l EXCEPT !.pc = "awaitPage",
                                !.pageCount = @ + 1,
                                !.sent = Append(@, [kind |-> "page",
                                                    since_id |-> l.sinceId])])
     /\ UNCHANGED <<remote, shopifyCache, now>>

\* the locals after a page that was answered with success (94-112)
TestNamesTakePage(l, products) ==
  LET allProducts == l.allProducts \o products
  IN [l EXCEPT !.allProducts = allProducts,
               !.sinceId = IF Len(products) = 0 THEN @ ELSE MaxProductId(products),
               !.hasMore = Len(products) # 0 /\ ~ReachedTotal(allProducts, l.countData),
               !.pc = "loop"]

\* the page answer arrives (90-112)
TestNamesPageResponse(r) ==
  LET l == req[r]
  IN /\ l.handler = "testnames"
     /\ l.pc = "awaitPage"
     /\ \E response \in SinceIdResponses(PageLimit, l.sinceId) :
          req' = Set(r, Heard(IF response.throws \/ ~response.ok THEN Fail(l)
                              ELSE TestNamesTakePage(l, response.products),
                              response))
     /\ UNCHANGED <<remote, shopifyCache, now>>

\* the loop has ended: the names are sent (114-131)
TestNamesRespond(r) ==
  LET l == req[r]
  IN /\ l.handler = "testnames"
     /\ l.pc = "loop"
     /\ ~TestNamesLoopGuard(l.hasMore)
     /\ req' = Set(r, [l EXCEPT
          !.pc = "done",
          !.res = [ status |-> 200,
                    totalProducts |-> Len(l.allProducts),
                    names |-> Take([k \in 1..Len(l.allProducts) |->
                                      Prop(l.allProducts[k], "title")], 100) ]])
     /\ UNCHANGED <<remote, shopifyCache, now>>

TestNamesNext(r) ==
  \/ TestNamesStart(r)
  \/ TestNamesCountResponse(r)
  \/ TestNamesRequestPage(r)
  \/ TestNamesPageResponse(r)
  \/ TestNamesRespond(r)

(***************************************************************************)
(* part_000: POST /api/shopify/products-availability                       *)
(***************************************************************************)

\* the safety limit of the page_info loop
Part000PageCap == 50

\* while (hasNextPage && pageCount < 50)
Part000LoopGuard(hasNextPage, pageCount) == hasNextPage /\ pageCount < Part000PageCap

\* linkHeader && linkHeader.includes('rel="next"')
HasNextLink(linkHeader) == \E k \in 1..Len(linkHeader) : linkHeader[k].rel = "next"

\* linkHeader.match(/<[^>]+page_info=([^>]+)>; rel="next"/): the page_info
\* of the first link that has one and is marked rel="next"; null without one
Part000NextCursor(linkHeader) ==
  LET hit == FirstWhere(linkHeader,
                        LAMBDA link : link.rel = "next" /\ Has(link, "page_info"))
  IN IF hit = <<>> THEN NoCursor ELSE hit[1].page_info

\* the handler is entered (203-220)
Part000Start(r) ==
  LET l == req[r]
  IN /\ l.handler = "part000"
     /\ l.pc = "start"
     /\ req' = Set(r, [l EXCEPT !.pc = "loop",
                                !.allProducts = <<>>,
                                !.pageInfo = NoCursor,
                                !.hasNextPage = TRUE,
                                !.pageCount = 0])
     /\ UNCHANGED <<remote, shopifyCache, now>>

\* one more turn of the loop: the page request is made (222-235)
Part000RequestPage(r) ==
  LET l == req[r]
  IN /\ l.handler = "part000"
     /\ l.pc = "loop"
     /\ Part000LoopGuard(l.hasNextPage, l.pageCount)
     /\ req' = Set(r, [l EXCEPT !.pc = "awaitPage",
                                !.pageCount = @ + 1,
                                !.sent = Append(@, [kind |-> "page",
                                                    page_info |-> l.pageInfo])])
     /\ UNCHANGED <<remote, shopifyCache, now>>

\* the page answer arrives (237-248)
Part000PageResponse(r) ==
  LET l == req[r]
  IN /\ l.handler = "part000"
     /\ l.pc = "awaitPage"
     /\ \E response \in CursorResponses(PageLimit, l.pageInfo) :
          req' = Set(r, Heard(
            IF response.throws \/ ~response.ok THEN Fail(l)
            ELSE [l EXCEPT !.pc = "loop",
                           !.allProducts = @ \o response.products,
                           !.hasNextPage = HasNextLink(response.link),
                           !.pageInfo = IF HasNextLink(response.link)
                                          THEN Part000NextCursor(response.link)
                                          ELSE @],
            response))
     /\ UNCHANGED <<remote, shopifyCache, now>>

\* the sample log reads p.variants[0] of the first three products (254-256)
SampleLogThrows(allProducts) ==
  \E k \in 1..Min(3, Len(allProducts)) : ~Has(allProducts[k], "variants")

\* fault injection for MatchAfterFetch: matching starts whatever the loop
\* has left to do
Part000BeginMatchEarly(r) ==
  LET l == req[r]
  IN /\ l.handler = "part000"
     /\ l.pc = "loop"
     /\ req' = Set(r, IF SampleLogThrows(l.allProducts) THEN Fail(l)
                      ELSE [l EXCEPT !.pc = "match",
                                     !.results = <<>>,
                                     !.totalMatches = 0,
                                     !.i = 0])
     /\ UNCHANGED <<remote, shopifyCache, now>>

\* the loop has ended: the sample log, then the matching loop starts (250-260)
Part000BeginMatch(r) ==
  LET l == req[r]
  IN /\ l.handler = "part000"
     /\ l.pc = "loop"
     /\ ~Part000LoopGuard(l.hasNextPage, l.pageCount)
     /\ req' = Set(r, IF SampleLogThrows(l.allProducts) THEN Fail(l)
                      ELSE [l EXCEPT !.pc = "match",
                                     !.results = <<>>,
                                     !.totalMatches = 0,
                                     !.i = 0])
     /\ UNCHANGED <<remote, shopifyCache, now>>

\* variant with its available property set to a
SetAvailable(variant, a) ==
  [f \in DOMAIN variant \cup {"available"} |->
     IF f = "available" THEN a ELSE variant[f]]

\* the inventory lookup for one variant (272-289): available is assigned only
\* when the lookup is made and answered with success
Part000Lookup(variant, response) ==
  IF Has(variant, "inventory_item_id") /\ ~response.throws /\ response.ok
    THEN SetAvailable(variant,
                      IF response.inventory_levels = <<>> THEN 0
                      ELSE response.inventory_levels[1].available)
    ELSE variant

\* product.variants.reduce((sum, v) => sum + (v.available || 0), 0)
RECURSIVE SumAvailable(_)
SumAvailable(variants) ==
  IF variants = <<>> THEN 0
  ELSE (IF Has(Head(variants), "available") THEN Head(variants).available ELSE 0)
       + SumAvailable(Tail(variants))

\* the answers to the lookups of one product: one per variant, fixed to
\* Throws where no lookup is made
LookupAnswers(variants) ==
  LET answers(v) == IF Has(v, "inventory_item_id")
                      THEN InventoryResponses(<<v.inventory_item_id>>)
                      ELSE {Throws}
  IN { a \in [1..Len(variants) ->
                UNION {answers(variants[j]) : j \in 1..Len(variants)}] :
         \A j \in 1..Len(variants) : a[j] \in answers(variants[j]) }

\* the inventory requests made for the variants of one product
LookupRequests(variants) ==
  LET withItem == SelectSeq(variants, LAMBDA v : Has(v, "inventory_item_id"))
  IN [j \in 1..Len(withItem) |->
        [kind |-> "inventory", inventory_item_ids |-> withItem[j].inventory_item_id]]

\* the locals after findMatches returned matches for csvProducts[i] and the
\* lookups of the best match were answered (265-298)
Part000TakeMatch(l, i, matches, answers) ==
  LET product == matches[1].shopifyProduct
      variants == [j \in 1..Len(l.allProducts[product].variants) |->
                     Part000Lookup(l.allProducts[product].variants[j], answers[j])]
  IN [l EXCEPT
        !.i = i,
        !.matches = matches,
        !.totalMatches = @ + 1,
        !.allProducts[product].variants = variants,
        !.sent = @ \o LookupRequests(l.allProducts[product].variants),
        !.results = Append(@, [csvProduct |-> i,
                               shopifyProduct |-> product,
                               matchReasons |-> matches[1].matchReasons,
                               available |-> SumAvailable(variants)])]

\* one turn of the matching loop (262-299): findMatches, then the inventory
\* lookups of the best match, then results.push
Part000MatchOne(r) ==
  LET l == req[r]
      i == l.i + 1
  IN /\ l.handler = "part000"
     /\ l.pc = "match"
     /\ l.i < Len(l.csvProducts)
     /\ \E matches \in {FindMatches(l.csvProducts[i], l.allProducts)} :
          IF matches = <<>>
            THEN req' = Set(r, [l EXCEPT !.i = i, !.matches = matches])
          ELSE IF ~Has(l.allProducts[matches[1].shopifyProduct], "variants")
            THEN req' = Set(r, Fail([l EXCEPT !.i = i, !.matches = matches]))
          ELSE \E answers \in
                 LookupAnswers(l.allProducts[matches[1].shopifyProduct].variants) :
                 req' = Set(r, Part000TakeMatch(l, i, matches, answers))
     /\ UNCHANGED <<remote, shopifyCache, now>>

\* res.json({ success: true, results, stats }) (301-315)
Part000Body(l) ==
  [ status |-> 200,
    success |-> TRUE,
    results |-> [k \in 1..Len(l.results) |->
                   [ csvProduct |-> l.csvProducts[l.results[k].csvProduct],
                     shopifyProduct |-> l.allProducts[l.results[k].shopifyProduct],
                     matchReasons |-> l.results[k].matchReasons,
                     available |-> l.results[k].available ]],
    totalCsvProducts |-> Len(l.csvProducts),
    totalShopifyProducts |-> Len(l.allProducts),
    matchedProducts |-> l.totalMatches ]

\* every query has been tried: the response (301-315)
Part000Respond(r) ==
  LET l == req[r]
  IN /\ l.handler = "part000"
     /\ l.pc = "match"
     /\ l.i = Len(l.csvProducts)
     /\ req' = Set(r, [l EXCEPT !.pc = "done", !.res = Part000Body(l)])
     /\ UNCHANGED <<remote, shopifyCache, now>>

Part000Next(r) ==
  \/ Part000Start(r)
  \/ Part000RequestPage(r)
  \/ Part000PageResponse(r)
  \/ Part000BeginMatch(r)
  \/ Part000MatchOne(r)
  \/ Part000Respond(r)

(***************************************************************************)
(* part_001: the cache, fetchAllProducts, fetchInventoryLevels,            *)
(* fetchProductsWithInventory and POST /api/shopify/products-availability  *)
(***************************************************************************)

\* the process-wide cache as the module creates it
EmptyCache == [products |-> <<>>, inventory |-> <<>>, timestamps |-> <<>>]

\* cache time-to-live, in milliseconds
TTL == 300000

\* fault injection for CacheServedWhileFresh: an entry as old as TTL is valid
IsCacheValidInclusive(key) ==
  /\ key \in DOMAIN shopifyCache.timestamps
  /\ shopifyCache.timestamps[key] # 0
  /\ now - shopifyCache.timestamps[key] <= TTL

\* function isCacheValid(key)
IsCacheValid(key) ==
  /\ key \in DOMAIN shopifyCache.timestamps
  /\ shopifyCache.timestamps[key] # 0
  /\ now - shopifyCache.timestamps[key] < TTL

\* f with f[k] = v
Put(f, k, v) == [x \in DOMAIN f \cup {k} |-> IF x = k THEN v ELSE f[x]]

\* f with the entries of g assigned: Object.assign(f, g)
Assign(f, g) == [x \in DOMAIN f \cup DOMAIN g |-> IF x \in DOMAIN g THEN g[x] ELSE f[x]]

AllProductsKey == <<"all_products">>

\* the safety limit of fetchAllProducts
Part001PageCap == 10

\* while (hasNextPage && pageCount < 10)
Part001LoopGuard(hasNextPage, pageCount) == hasNextPage /\ pageCount < Part001PageCap

\* linkHeader.match(/page_info=([^&>]+).*?rel="next"/): the first page_info
\* of the header that rel="next" follows, whichever link it belongs to
NextCursor(linkHeader) ==
  LET hits == {k \in 1..Len(linkHeader) :
                 /\ Has(linkHeader[k], "page_info")
                 /\ \E j \in k..Len(linkHeader) : linkHeader[j].rel = "next"}
  IN IF hits = {} THEN NoCursor
     ELSE linkHeader[CHOOSE k \in hits : \A j \in hits : k <= j].page_info

\* the handler calls fetchProductsWithInventory, which reads the cache
\* (346-357, 238-247, 283-290)
Part001Start(r) ==
  LET l == req[r]
  IN /\ l.handler = "part001"
     /\ l.pc = "start"
     /\ req' = Set(r,
          IF IsCacheValid(AllProductsKey) /\ AllProductsKey \in DOMAIN shopifyCache.products
            THEN [l EXCEPT !.pc = "fetched",
                           !.products = shopifyCache.products[AllProductsKey]]
            ELSE [l EXCEPT !.pc = "loop",
                           !.allProducts = <<>>,
                           !.page_info = NoCursor,
                           !.hasNextPage = TRUE,
                           !.pageCount = 0])
     /\ UNCHANGED <<remote, shopifyCache, now>>

\* fetchAllProducts: one more turn of the loop, the page request is made
\* (108-125)
Part001RequestPage(r) ==
  LET l == req[r]
  IN /\ l.handler = "part001"
     /\ l.pc = "loop"
     /\ Part001LoopGuard(l.hasNextPage, l.pageCount)
     /\ req' = Set(r, [l EXCEPT !.pc = "awaitPage",
                                !.pageCount = @ + 1,
                                !.sent = Append(@, [kind |-> "page",
                                                    page_info |-> l.page_info])])
     /\ UNCHANGED <<remote, shopifyCache, now>>

\* the locals after a page answered with success (132-146)
CursorTakePage(l, response) ==
  LET next == IF HasNextLink(response.link) THEN NextCursor(response.link)
              ELSE NoCursor
  IN [l EXCEPT !.pc = "loop",
               !.allProducts = @ \o response.products,
               !.page_info = IF next # NoCursor THEN next ELSE @,
               !.hasNextPage = next # NoCursor]

\* fault injection for FailedPageEndsFetch: the loop goes on after a failed
\* page request
Part001PageResponseRetry(r) ==
  LET l == req[r]
  IN /\ l.handler = "part001"
     /\ l.pc = "awaitPage"
     /\ \E response \in CursorResponses(PageLimit, l.page_info) :
          req' = Set(r, Heard(IF response.throws \/ ~response.ok
                                THEN [l EXCEPT !.pc = "loop"]
                                ELSE CursorTakePage(l, response),
                              response))
     /\ UNCHANGED <<remote, shopifyCache, now>>

\* fetchAllProducts: the page answer arrives; a non-success status and a
\* thrown error both break out of the loop (127-150)
Part001PageResponse(r) ==
  LET l == req[r]
  IN /\ l.handler = "part001"
     /\ l.pc = "awaitPage"
     /\ \E response \in CursorResponses(PageLimit, l.page_info) :
          req' = Set(r, Heard(IF response.throws \/ ~response.ok
                                THEN [l EXCEPT !.pc = "break"]
                                ELSE CursorTakePage(l, response),
                              response))
     /\ UNCHANGED <<remote, shopifyCache, now>>

\* fetchAllProducts returns allProducts, which is stored in the cache with
\* the time (153-154, 290-292)
Part001Store(r) ==
  LET l == req[r]
  IN /\ l.handler = "part001"
     /\ \/ l.pc = "break"
        \/ l.pc = "loop" /\ ~Part001LoopGuard(l.hasNextPage, l.pageCount)
     /\ req' = Set(r, [l EXCEPT !.pc = "fetched", !.products = l.allProducts])
     /\ shopifyCache' =
          [shopifyCache EXCEPT
             !.products = Put(@, AllProductsKey, l.allProducts),
             !.timestamps = Put(@, AllProductsKey, now)]
     /\ UNCHANGED <<remote, now>>

\* Shopify takes at most this many inventory items a call
ChunkSize == 50

\* variantIds cut into chunks of 50 (164-167)
RECURSIVE Chunks(_)
Chunks(variantIds) ==
  IF variantIds = <<>> THEN <<>>
  ELSE <<Take(variantIds, ChunkSize)>>
       \o Chunks(SubSeq(variantIds, Min(ChunkSize, Len(variantIds)) + 1, Len(variantIds)))

\* products.flatMap(p => p.variants.map(v => v.id)), a TypeError when a
\* product has no variants; the catch of fetchProductsWithInventory then
\* returns [] (296-301, 337-340)
Part001BeginInventory(r) ==
  LET l == req[r]
      variants == AllVariants(l.products)
  IN /\ l.handler = "part001"
     /\ l.pc = "fetched"
     /\ req' = Set(r,
          IF \E k \in 1..Len(l.products) : ~Has(l.products[k], "variants")
            THEN [l EXCEPT !.pc = "respond", !.products = <<>>]
            ELSE [l EXCEPT !.pc = "chunks",
                           !.inventoryData = <<>>,
                           !.chunks = Chunks([k \in 1..Len(variants) |-> variants[k].id]),
                           !.i = 0])
     /\ UNCHANGED <<remote, shopifyCache, now>>

\* the map from variant id to its level, built from the two answers (211-219)
VariantToInventory(variants, inventory_levels) ==
  [id \in {variants[k].id : k \in 1..Len(variants)} |->
     LET variant == CHOOSE v \in {variants[k] : k \in 1..Len(variants)} : v.id = id
         invLevel == FirstWhere(inventory_levels,
                       LAMBDA il : /\ Has(variant, "inventory_item_id")
                                   /\ il.inventory_item_id = variant.inventory_item_id)
     IN [available |-> IF invLevel = <<>> THEN 0 ELSE invLevel[1].available]]

\* the inventory_item_ids of variantData.variants, the falsy ones filtered out
InventoryItemIds(variants) ==
  LET withItem == SelectSeq(variants, LAMBDA v : Has(v, "inventory_item_id"))
  IN [k \in 1..Len(withItem) |-> withItem[k].inventory_item_id]

\* fetchInventoryLevels: one chunk served from the cache (172-177)
Part001ChunkCached(r) ==
  LET l == req[r]
      cacheKey == <<"inventory">> \o l.chunks[l.i + 1]
  IN /\ l.handler = "part001"
     /\ l.pc = "chunks"
     /\ l.i < Len(l.chunks)
     /\ IsCacheValid(cacheKey) /\ cacheKey \in DOMAIN shopifyCache.inventory
     /\ req' = Set(r, [l EXCEPT !.i = @ + 1,
                                !.inventoryData =
                                  Assign(@, shopifyCache.inventory[cacheKey])])
     /\ UNCHANGED <<remote, shopifyCache, now>>

\* fetchInventoryLevels: one chunk fetched, the variants first and then the
\* levels of their inventory items (179-229)
Part001ChunkFetched(r) ==
  LET l == req[r]
      chunk == l.chunks[l.i + 1]
      cacheKey == <<"inventory">> \o chunk
      asked == [kind |-> "variants", ids |-> chunk]
  IN /\ l.handler = "part001"
     /\ l.pc = "chunks"
     /\ l.i < Len(l.chunks)
     /\ ~(IsCacheValid(cacheKey) /\ cacheKey \in DOMAIN shopifyCache.inventory)
     /\ \E variantResponse \in VariantResponses(chunk) :
          IF \/ variantResponse.throws
             \/ ~variantResponse.ok
             \/ InventoryItemIds(variantResponse.variants) = <<>>
            THEN /\ req' = Set(r, [l EXCEPT !.i = @ + 1, !.sent = Append(@, asked)])
                 /\ UNCHANGED shopifyCache
            ELSE \E inventoryResponse \in
                   InventoryResponses(InventoryItemIds(variantResponse.variants)) :
              LET sent == l.sent \o
                    <<asked, [kind |-> "inventory",
                              inventory_item_ids |->
                                InventoryItemIds(variantResponse.variants)]>>
                  variantToInventory ==
                    VariantToInventory(variantResponse.variants,
                                       inventoryResponse.inventory_levels)
              IN IF inventoryResponse.throws \/ ~inventoryResponse.ok
                   THEN /\ req' = Set(r, [l EXCEPT !.i = @ + 1, !.sent = sent])
                        /\ UNCHANGED shopifyCache
                   ELSE /\ req' = Set(r, [l EXCEPT
                             !.i = @ + 1,
                             !.sent = sent,
                             !.inventoryData = Assign(@, variantToInventory)])
                        /\ shopifyCache' =
                             [shopifyCache EXCEPT
                                !.inventory = Put(@, cacheKey, variantToInventory),
                                !.timestamps = Put(@, cacheKey, now)]
     /\ UNCHANGED <<remote, now>>

\* a variant combined with its inventory (305-321)
WithInventory(variant, inventoryData) ==
  SetAvailable(variant, IF variant.id \in DOMAIN inventoryData
                          THEN inventoryData[variant.id].available ELSE 0)

\* products.map(...) (304-332)
ProductsWithInventory(products, inventoryData) ==
  [k \in 1..Len(products) |->
     [products[k] EXCEPT !.variants =
        [j \in 1..Len(@) |-> WithInventory(@[j], inventoryData)]]]

\* the productNames filter of part_001 (362-368)
Part001NameFilter(products, productNames) ==
  IF productNames = <<>> THEN products
  ELSE SelectSeq(products, LAMBDA product :
         \E k \in 1..Len(productNames) :
           Includes(ToLowerCase(product.title), ToLowerCase(productNames[k])))

\* the skuPrefixes filter (370-378)
PrefixFilter(products, skuPrefixes) ==
  IF skuPrefixes = <<>> THEN products
  ELSE SelectSeq(products, LAMBDA product :
         \E j \in 1..Len(product.variants), k \in 1..Len(skuPrefixes) :
           /\ Truthy(Prop(product.variants[j], "sku"))
           /\ StartsWith(product.variants[j].sku, skuPrefixes[k]))

\* res.json({ success: true, products, ... }) (380-403)
Part001Body(products) ==
  [ status |-> 200,
    success |-> TRUE,
    products |-> products,
    totalProducts |-> Len(products) ]

\* fetchProductsWithInventory returns; the handler filters and responds
\* (303-335, 359-403)
Part001Respond(r) ==
  LET l == req[r]
      products == ProductsWithInventory(l.products, l.inventoryData)
  IN /\ l.handler = "part001"
     /\ \/ l.pc = "respond"
        \/ l.pc = "chunks" /\ l.i = Len(l.chunks)
     /\ req' = Set(r, [l EXCEPT
          !.pc = "done",
          !.res = Part001Body(PrefixFilter(Part001NameFilter(products, l.productNames),
                                           l.skuPrefixes))])
     /\ UNCHANGED <<remote, shopifyCache, now>>

\* The clock and the clearing of the cache are followed while a request of
\* part_001 for the whole catalog, without filters, is being served or is yet
\* to come: the filters play no part in what the cache holds.
CacheWatched ==
  /\ \E r \in Requests : req[r].handler = "part001" /\ req[r].pc # "done"
  /\ \A r \in Requests : req[r].productNames = <<>> /\ req[r].skuPrefixes = <<>>

\* the times Date.now() returns after the first: one millisecond before the
\* entries stored at the first are TTL old, and the millisecond they are
ClockValues == {2 * TTL - 1, 2 * TTL}

\* time passes
Tick ==
  /\ CacheWatched
  /\ \E t \in ClockValues : t > now /\ now' = t
  /\ UNCHANGED <<remote, req, shopifyCache>>

\* the request is waiting for the answer to a page request of
\* fetchAllProducts (await fetch, 118-125)
Fetching(l) == l.handler = "part001" /\ l.pc = "awaitPage"

\* POST /api/cache/clear (465-480): the cache is replaced by an empty one
CacheClear ==
  /\ CacheWatched
  /\ shopifyCache' = EmptyCache
  /\ req' = [r \in Requests |->
               IF Fetching(req[r]) THEN [req[r] EXCEPT !.cleared = TRUE] ELSE req[r]]
  /\ UNCHANGED <<remote, now>>

Part001Next(r) ==
  \/ Part001Start(r)
  \/ Part001RequestPage(r)
  \/ Part001PageResponse(r)
  \/ Part001Store(r)
  \/ Part001BeginInventory(r)
  \/ Part001ChunkCached(r)
  \/ Part001ChunkFetched(r)
  \/ Part001Respond(r)

(***************************************************************************)
(* part_002: POST /api/shopify/products-availability                       *)
(***************************************************************************)

\* the safety limit of the page_info loop
Part002PageCap == 10

\* while (pageCount < 10)
Part002LoopGuard(pageCount) == pageCount < Part002PageCap

\* the handler is entered (207-229)
Part002Start(r) ==
  LET l == req[r]
  IN /\ l.handler = "part002"
     /\ l.pc = "start"
     /\ req' = Set(r, [l EXCEPT !.pc = "loop",
                                !.allProducts = <<>>,
                                !.page_info = NoCursor,
                                !.pageCount = 0])
     /\ UNCHANGED <<remote, shopifyCache, now>>

\* one more turn of the loop: the page request is made (231-248)
Part002RequestPage(r) ==
  LET l == req[r]
  IN /\ l.handler = "part002"
     /\ l.pc = "loop"
     /\ Part002LoopGuard(l.pageCount)
     /\ req' = Set(r, [l EXCEPT !.pc = "awaitPage",
                                !.pageCount = @ + 1,
                                !.sent = Append(@, [kind |-> "page",
                                                    page_info |-> l.page_info])])
     /\ UNCHANGED <<remote, shopifyCache, now>>

\* the page answer arrives: a thrown error reaches the catch of the handler,
\* a non-success status breaks out of the loop, and so does a header with
\* no next page (250-269)
Part002PageResponse(r) ==
  LET l == req[r]
  IN /\ l.handler = "part002"
     /\ l.pc = "awaitPage"
     /\ \E response \in CursorResponses(PageLimit, l.page_info) :
          req' = Set(r, Heard(
            IF response.throws THEN Fail(l)
            ELSE IF ~response.ok THEN [l EXCEPT !.pc = "break"]
            ELSE LET taken == CursorTakePage(l, response)
                 IN [taken EXCEPT !.pc = IF taken.hasNextPage THEN "loop" ELSE "break"],
            response))
     /\ UNCHANGED <<remote, shopifyCache, now>>

\* the name strategies of the productNames filter (286-318)
Part002NameMatches(productTitle, productNames) ==
  \E k \in 1..Len(productNames) :
    \/ productNames[k] = productTitle
    \/ ToLowerCase(productNames[k]) = ToLowerCase(productTitle)
    \/ Includes(ToLowerCase(productTitle), ToLowerCase(productNames[k]))
    \/ Includes(ToLowerCase(productNames[k]), ToLowerCase(productTitle))

\* the products matched by name, then those matched by SKU prefix that are
\* not among them yet (281-348)
Part002Matched(allProducts, productNames, skuPrefixes) ==
  LET byName == IF productNames = <<>> THEN <<>>
                ELSE SelectSeq(allProducts, LAMBDA product :
                       Part002NameMatches(product.title, productNames))
      skuMatched == IF skuPrefixes = <<>> THEN <<>>
                    ELSE PrefixFilter(allProducts, skuPrefixes)
  IN byName \o SelectSeq(skuMatched, LAMBDA product :
                 \A k \in 1..Len(byName) : byName[k].id # product.id)

\* where the handler reads the variants of a product that has none: the
\* sample log of the first five products, the SKU filter, the formatting
Part002Throws(allProducts, productNames, skuPrefixes) ==
  \/ \E k \in 1..Min(5, Len(allProducts)) : ~Has(allProducts[k], "variants")
  \/ /\ skuPrefixes # <<>>
     /\ \E k \in 1..Len(allProducts) : ~Has(allProducts[k], "variants")
  \/ /\ productNames # <<>>
     /\ \E k \in 1..Len(allProducts) :
          /\ ~Has(allProducts[k], "variants")
          /\ Part002NameMatches(allProducts[k].title, productNames)

\* available: variant.inventory_quantity || 0 (353-367)
Part002Format(products) ==
  [k \in 1..Len(products) |->
     [products[k] EXCEPT !.variants =
        [j \in 1..Len(@) |->
           SetAvailable(@[j], IF Has(@[j], "inventory_quantity")
                                THEN @[j].inventory_quantity ELSE 0)]]]

\* the loop has ended: filtering and the response (272-382)
Part002Respond(r) ==
  LET l == req[r]
  IN /\ l.handler = "part002"
     /\ \/ l.pc = "break"
        \/ l.pc = "loop" /\ ~Part002LoopGuard(l.pageCount)
     /\ req' = Set(r,
          IF Part002Throws(l.allProducts, l.productNames, l.skuPrefixes) THEN Fail(l)
          ELSE [l EXCEPT
                  !.pc = "done",
                  !.res = [ status |-> 200,
                            success |-> TRUE,
                            products |-> Part002Format(
                              Part002Matched(l.allProducts, l.productNames,
                                             l.skuPrefixes)),
                            shopifyTotal |-> Len(l.allProducts) ]])
     /\ UNCHANGED <<remote, shopifyCache, now>>

Part002Next(r) ==
  \/ Part002Start(r)
  \/ Part002RequestPage(r)
  \/ Part002PageResponse(r)
  \/ Part002Respond(r)

(***************************************************************************)
(* part_002: fetchAllProducts of the cached server (812-856)               *)
(***************************************************************************)

\* while (hasNextPage)
FetchAllLoopGuard(hasNextPage) == hasNextPage

\* fetchAllProducts is called (758, 812-815)
FetchAllStart(r) ==
  LET l == req[r]
  IN /\ l.handler = "part002all"
     /\ l.pc = "start"
     /\ req' = Set(r, [l EXCEPT !.pc = "loop",
                                !.allProducts = <<>>,
                                !.page_info = NoCursor,
                                !.hasNextPage = TRUE])
     /\ UNCHANGED <<remote, shopifyCache, now>>

\* one more turn of the loop: the page request is made (817-831); the loop
\* has no limit, the model lets it ask for MaxPages pages
FetchAllRequestPage(r) ==
  LET l == req[r]
  IN /\ l.handler = "part002all"
     /\ l.pc = "loop"
     /\ FetchAllLoopGuard(l.hasNextPage)
     /\ Len(l.sent) < MaxPages
     /\ req' = Set(r, [l EXCEPT !.pc = "awaitPage",
                                !.sent = Append(@, [kind |-> "page",
                                                    page_info |-> l.page_info])])
     /\ UNCHANGED <<remote, shopifyCache, now>>

\* the page answer arrives (826-852): a non-success status breaks out of the
\* loop; a thrown error leaves the function and the caller returns [] (805-808)
FetchAllPageResponse(r) ==
  LET l == req[r]
  IN /\ l.handler = "part002all"
     /\ l.pc = "awaitPage"
     /\ \E response \in CursorResponses(PageLimit, l.page_info) :
          req' = Set(r, Heard(
            IF response.throws THEN [l EXCEPT !.pc = "done", !.products = <<>>]
            ELSE IF ~response.ok THEN [l EXCEPT !.pc = "break"]
            ELSE CursorTakePage(l, response),
            response))
     /\ UNCHANGED <<remote, shopifyCache, now>>

\* return allProducts (855)
FetchAllReturn(r) ==
  LET l == req[r]
  IN /\ l.handler = "part002all"
     /\ \/ l.pc = "break"
        \/ l.pc = "loop" /\ ~FetchAllLoopGuard(l.hasNextPage)
     /\ req' = Set(r, [l EXCEPT !.pc = "done", !.products = l.allProducts])
     /\ UNCHANGED <<remote, shopifyCache, now>>

FetchAllNext(r) ==
  \/ FetchAllStart(r)
  \/ FetchAllRequestPage(r)
  \/ FetchAllPageResponse(r)
  \/ FetchAllReturn(r)

(***************************************************************************)
(* Specification                                                           *)
(***************************************************************************)

\* the remotes two requests are served against at once: one product, with a
\* variant that has an inventory item
SharedRemotes ==
  { rm \in HonestRemotes :
      /\ Len(rm.products) = 1
      /\ \E k \in 1..Len(AllVariants(rm.products)) :
           Has(AllVariants(rm.products)[k], "inventory_item_id") }

\* one request arrives and the other never does, or two requests for the
\* whole catalog arrive at part_001, or two requests with one query arrive at
\* server.js
Init ==
  /\ remote \in Remotes
  /\ shopifyCache = EmptyCache
  /\ now = TTL
  /\ \/ \E h \in {"server", "part000"}, qs \in QueryLists :
          /\ remote \in OddRemotes \cup UnsortedRemotes => Len(qs) <= 1
          /\ remote \in FullPageRemotes => Len(qs) = 0
          /\ req = [r \in Requests |->
                      IF r = "r1" THEN Locals(h, qs, <<>>, <<>>) ELSE Idle]
     \/ \E h \in {"part001", "part002"}, ns \in NameLists, ps \in PrefixLists :
          /\ remote \in FullPageRemotes => Len(ns) = 0 /\ Len(ps) = 0
          /\ req = [r \in Requests |->
                      IF r = "r1" THEN Locals(h, <<>>, ns, ps) ELSE Idle]
     \/ /\ remote \in SharedRemotes
        /\ req = [r \in Requests |-> Locals("part001", <<>>, <<>>, <<>>)]
     \/ /\ remote \in SharedRemotes
        /\ \E qs \in QueryLists :
             /\ Len(qs) = 1
             /\ req = [r \in Requests |-> Locals("server", qs, <<>>, <<>>)]
     \/ \E h \in {"testnames", "part002all"} :
          req = [r \in Requests |->
                   IF r = "r1" THEN Locals(h, <<>>, <<>>, <<>>) ELSE Idle]

Next ==
  \/ \E r \in Requests :
       \/ ServerNext(r)
       \/ TestNamesNext(r)
       \/ Part000Next(r)
       \/ Part001Next(r)
       \/ Part002Next(r)
       \/ FetchAllNext(r)
  \/ Tick
  \/ CacheClear

Spec == Init /\ [][Next]_vars

(***************************************************************************)
(* Properties                                                              *)
(***************************************************************************)

\* the handlers that match query records against the catalog
Matchers == {"server", "part000"}

\* the number of product-page requests a request has made
PageRequests(l) == Cardinality({k \in 1..Len(l.sent) : l.sent[k].kind = "page"})

\* the safety limit of the fetch loop of each capped handler
PageCapOf(handler) ==
  CASE handler = "server" -> ServerPageCap
    [] handler = "part000" -> Part000PageCap
    [] handler = "part001" -> Part001PageCap

\* the request has been answered with success
Succeeded(l) == l.pc = "done" /\ l.res.status = 200

\* C1: whatever the remote answers, a catalog fetch capped at N pages makes
\* at most N product-page requests (100 in server.js, 50 in part_000, 10 in
\* fetchAllProducts of part_001).
PageCapKept ==
  \A r \in Requests :
    req[r].handler \in {"server", "part000", "part001"}
      => PageRequests(req[r]) <= PageCapOf(req[r].handler)

\* server.js has made all its 100 page requests against a remote that still
\* had more to give, and has gone on to answer
PageCapReached ==
  \E r \in Requests :
    /\ req[r].handler = "server"
    /\ req[r].pc = "done"
    /\ req[r].hasMore
    /\ PageRequests(req[r]) = ServerPageCap

\* C2: a product-page request answered with a non-success status makes the
\* request end in an error outcome, never in a success.
NonSuccessPageFails ==
  \A r \in Requests :
    /\ req[r].pc = "done"
    /\ \E k \in 1..Len(req[r].pageAnswers) : req[r].pageAnswers[k] = "status"
    => req[r].res.status = 500 /\ ~req[r].res.success

\* the queries of a request that the matcher of its handler matches
MatchedQueries(l) ==
  {i \in 1..Len(l.csvProducts) :
     IF l.handler = "server"
       THEN ServerFind(l.csvProducts[i], l.allProducts) # 0
       ELSE FindMatches(l.csvProducts[i], l.allProducts) # <<>>}

ScoreFor(q, allProducts, k) ==
  Candidate(OrElse(Prop(q, "name"), Empty), OrElse(Prop(q, "sku"), Empty),
            allProducts, k).matchScore

\* C4: the entry selected for a query has the highest matchScore of the
\* catalog, and is the first of the catalog among those that have it.
HighestScoreSelected ==
  \A r \in Requests :
    req[r].handler \in Matchers
      => LET l == req[r]
         IN \A k \in 1..Len(l.results), j \in 1..Len(l.allProducts) :
              LET q == l.csvProducts[l.results[k].csvProduct]
                  chosen == l.results[k].shopifyProduct
              IN \/ ScoreFor(q, l.allProducts, j) < ScoreFor(q, l.allProducts, chosen)
                 \/ /\ ScoreFor(q, l.allProducts, j) = ScoreFor(q, l.allProducts, chosen)
                    /\ chosen <= j

\* C5: a query whose name and sku are both absent or empty is never matched.
EmptyQueryNeverMatched ==
  \A r \in Requests :
    req[r].handler \in Matchers
      => \A k \in 1..Len(req[r].results) :
           LET q == req[r].csvProducts[req[r].results[k].csvProduct]
           IN Truthy(Prop(q, "name")) \/ Truthy(Prop(q, "sku"))

\* the reasons of one rule among matchReasons
ReasonsOf(rule, matchReasons) == SelectSeq(matchReasons, LAMBDA reason : reason.rule = rule)

\* C6: at most one variant of an entry contributes SKU points and a SKU
\* reason, however many of its variants match.
OneVariantScores ==
  \A r \in Requests :
    req[r].handler = "part000"
      => \A k \in 1..Len(req[r].matches) :
           Len(ReasonsOf("SKU match", req[r].matches[k].matchReasons)) <= 1

\* part_000 has run findMatches for query l.i
Scored(l) == l.handler = "part000" /\ l.pc \in {"match", "done"} /\ l.i > 0

\* C7: every candidate findMatches returns has matchScore > 0, and a query
\* gets a result only from the first of its candidates: with no candidate
\* above the threshold it gets none.
ThresholdKept ==
  \A r \in Requests :
    req[r].handler = "part000"
      => LET l == req[r]
         IN /\ \A k \in 1..Len(l.matches) : l.matches[k].matchScore > 0
            /\ \A k \in 1..Len(l.results) :
                 Scored(l) /\ l.results[k].csvProduct = l.i
                   => /\ l.matches # <<>>
                      /\ l.results[k].shopifyProduct = l.matches[1].shopifyProduct

\* after a first query that matched, a second one found no candidate in a
\* catalog that is not empty, and got no result
NoCandidateNoResult ==
  \E r \in Requests :
    /\ Scored(req[r])
    /\ req[r].i = 2
    /\ req[r].matches = <<>>
    /\ req[r].allProducts # <<>>
    /\ Len(req[r].results) = 1
    /\ req[r].results[1].csvProduct = 1

\* the fixed point value of the rule a reason records
PointsOf(reason) == IF reason.rule = "Name match" THEN NamePoints ELSE SkuPoints

RECURSIVE SumPoints(_)
SumPoints(matchReasons) ==
  IF matchReasons = <<>> THEN 0
  ELSE PointsOf(Head(matchReasons)) + SumPoints(Tail(matchReasons))

\* C8: the matchScore of every candidate is the sum of the points of the
\* rules in its matchReasons, and a name reason comes before every SKU reason.
ScoreExplained ==
  \A r \in Requests :
    req[r].handler = "part000"
      => \A k \in 1..Len(req[r].matches) :
           LET m == req[r].matches[k]
           IN /\ m.matchScore = SumPoints(m.matchReasons)
              /\ \A a, b \in 1..Len(m.matchReasons) :
                   /\ m.matchReasons[a].rule = "Name match"
                   /\ m.matchReasons[b].rule = "SKU match"
                   => a < b

\* a candidate for which both the name rule and the SKU rule fired
NameAndSkuFired ==
  \E r \in Requests :
    /\ Scored(req[r])
    /\ \E k \in 1..Len(req[r].matches) :
         LET m == req[r].matches[k]
         IN /\ Len(m.matchReasons) = 2
            /\ m.matchReasons[1].rule = "Name match"
            /\ m.matchReasons[2].rule = "SKU match"
            /\ m.matchScore = NamePoints + SkuPoints

\* the three ways a title relates to a query name: equal to it, equal to
\* what is left of it without the brand prefix, or containing it or
\* contained in it without being either
TitleIsName(name, title) == title = name

TitleIsCore(name, title) ==
  title # name /\ title = ReplaceFirst(name, BrandDash, Empty)

TitleContainsName(name, title) ==
  /\ ~TitleIsName(name, title)
  /\ ~TitleIsCore(name, title)
  /\ Includes(ToLowerCase(title), ToLowerCase(name))

TitleOnlyOverlaps(name, title) ==
  /\ ~TitleIsName(name, title)
  /\ ~TitleIsCore(name, title)
  /\ \/ Includes(ToLowerCase(title), ToLowerCase(name))
     \/ Includes(ToLowerCase(name), ToLowerCase(title))

\* the name component of the score recorded for a candidate
NameComponent(m) == NamePoints * Len(ReasonsOf("Name match", m.matchReasons))

\* the name of the query part_000 scored last, '' when it has none
LastName(l) == OrElse(Prop(l.csvProducts[l.i], "name"), Empty)

SameSkuUpperCased(sku, allProducts) ==
  {j \in 1..Len(allProducts) :
     /\ Has(allProducts[j], "variants")
     /\ \E v \in 1..Len(allProducts[j].variants) :
          /\ Truthy(Prop(allProducts[j].variants[v], "sku"))
          /\ ToUpperCase(allProducts[j].variants[v].sku) = ToUpperCase(sku)}

\* C10: an entry with a variant whose SKU equals the query SKU after
\* upper-casing is a match candidate of that query: findMatches returns it,
\* and server.js gives the query a result.
SkuCaseInsensitive ==
  \A r \in Requests :
    LET l == req[r]
    IN /\ Scored(l) /\ Truthy(Prop(l.csvProducts[l.i], "sku"))
         => \A j \in SameSkuUpperCased(l.csvProducts[l.i].sku, l.allProducts) :
              \E k \in 1..Len(l.matches) : l.matches[k].shopifyProduct = j
       /\ l.handler = "server" /\ Succeeded(l)
         => \A i \in 1..Len(l.csvProducts) :
              /\ Truthy(Prop(l.csvProducts[i], "sku"))
              /\ SameSkuUpperCased(l.csvProducts[i].sku, l.allProducts) # {}
              => \E k \in 1..Len(l.results) : l.results[k].csvProduct = i

\* the decimal digits
Digits == {"0", "1", "2", "3", "4", "5", "6", "7", "8", "9"}

\* the word characters a SKU is compared by once it is stripped
Alphanumerics ==
  {UpperLetters[k] : k \in 1..Len(UpperLetters)}
    \cup {LowerLetters[k] : k \in 1..Len(LowerLetters)} \cup Digits

\* s without its non-alphanumeric characters
StripNonAlnum(s) == SelectSeq(s, LAMBDA c : c \in Alphanumerics)

\* the entries of the catalog with a variant whose SKU is sku once both have
\* lost their non-alphanumeric characters
SameSkuStripped(sku, allProducts) ==
  {j \in 1..Len(allProducts) :
     /\ Has(allProducts[j], "variants")
     /\ \E v \in 1..Len(allProducts[j].variants) :
          /\ Truthy(Prop(allProducts[j].variants[v], "sku"))
          /\ StripNonAlnum(allProducts[j].variants[v].sku) = StripNonAlnum(sku)}

\* C11: an entry with a variant whose SKU equals the query SKU after
\* stripping the non-alphanumeric characters of both, whichever of the two
\* carries the separator, has the SKU rule fire: findMatches returns it with
\* a SKU reason, and server.js gives the query a result.
SkuSeparatorsIgnored ==
  \A r \in Requests :
    LET l == req[r]
    IN /\ Scored(l) /\ Truthy(Prop(l.csvProducts[l.i], "sku"))
         => \A j \in SameSkuStripped(l.csvProducts[l.i].sku, l.allProducts) :
              \E k \in 1..Len(l.matches) :
                /\ l.matches[k].shopifyProduct = j
                /\ ReasonsOf("SKU match", l.matches[k].matchReasons) # <<>>
       /\ l.handler = "server" /\ Succeeded(l)
         => \A i \in 1..Len(l.csvProducts) :
              /\ Truthy(Prop(l.csvProducts[i], "sku"))
              /\ SameSkuStripped(l.csvProducts[i].sku, l.allProducts) # {}
              => \E k \in 1..Len(l.results) : l.results[k].csvProduct = i

\* the quantity a variant has to offer: its available property when one was
\* assigned, its inventory_quantity otherwise
AvailableOrQuantity(variant) ==
  IF Has(variant, "available") THEN variant.available
  ELSE IF Has(variant, "inventory_quantity") THEN variant.inventory_quantity
  ELSE 0

RECURSIVE SumAvailableOrQuantity(_)
SumAvailableOrQuantity(variants) ==
  IF variants = <<>> THEN 0
  ELSE AvailableOrQuantity(Head(variants)) + SumAvailableOrQuantity(Tail(variants))

\* result k of the request was made by the last matching step, so that the
\* variants of its entry are as that step left them
Fresh(l, k) ==
  \/ l.handler = "server"
  \/ Scored(l) /\ k = Len(l.results) /\ l.results[k].csvProduct = l.i

\* C12: the total availability reported for a matched query is the sum, over
\* all variants of the matched entry, of the variant's available quantity,
\* which is its inventory_quantity when no live availability was fetched.
TotalIsSumOverVariants ==
  \A r \in Requests :
    req[r].handler \in Matchers
      => \A k \in 1..Len(req[r].results) :
           Fresh(req[r], k)
             => req[r].results[k].available =
                  SumAvailableOrQuantity(
                    req[r].allProducts[req[r].results[k].shopifyProduct].variants)

\* C13: a variant whose live inventory lookup was not made or did not succeed
\* has its inventory_quantity as available quantity: in part_000 and
\* server.js every variant of a matched entry has an available quantity,
\* which is its inventory_quantity when it has no inventory item to look up;
\* in part_001 a variant for which fetchInventoryLevels brought no level
\* is returned with its inventory_quantity as available.
FallbackIsQuantity ==
  \A r \in Requests :
    LET l == req[r]
    IN /\ l.handler \in Matchers
         => \A k \in 1..Len(l.results) :
              Fresh(l, k)
                => LET variants == l.allProducts[l.results[k].shopifyProduct].variants
                   IN \A j \in 1..Len(variants) :
                        Has(variants[j], "inventory_quantity")
                          => /\ Has(variants[j], "available")
                             /\ ~Has(variants[j], "inventory_item_id")
                                  => variants[j].available = variants[j].inventory_quantity
       /\ l.handler = "part001" /\ Succeeded(l)
         => \A k \in 1..Len(l.res.products) :
              \A j \in 1..Len(l.res.products[k].variants) :
                LET variant == l.res.products[k].variants[j]
                IN variant.id \notin DOMAIN l.inventoryData
                     => variant.available = variant.inventory_quantity

\* the catalog and the query list of the Aurora Dress scenario
AuroraCatalog ==
  Catalog(<< [ title |-> BrandDash \o AuroraDress,
               variants |-> << [ id |-> 1, sku |-> <<"A","U","R","-","0","0","1">>,
                                 inventory_quantity |-> 5 ] >> ] >>)

AuroraQueries == << [ name |-> AuroraDress, sku |-> <<"A","U","R","0","0","1">> ] >>

\* the request has been answered with success in the Aurora Dress scenario
AuroraAnswered(l) ==
  /\ l.handler \in Matchers
  /\ Succeeded(l)
  /\ remote.products = AuroraCatalog
  /\ l.csvProducts = AuroraQueries
  /\ Len(l.allProducts) = 1

\* C14: in the Aurora Dress scenario the answer holds one result, whose entry
\* is "LOFT.73 - Aurora Dress", whose availability is 5 and whose reasons
\* include a name match on the core "Aurora Dress" and a SKU match.
AuroraScenario ==
  \A r \in Requests :
    AuroraAnswered(req[r])
      => LET l == req[r]
         IN /\ Len(l.res.results) = 1
            /\ l.res.results[1].shopifyProduct.title = BrandDash \o AuroraDress
            /\ l.res.results[1].available = 5
            /\ Has(l.res.results[1], "matchReasons")
            /\ \E a \in 1..Len(l.res.results[1].matchReasons) :
                 /\ l.res.results[1].matchReasons[a].rule = "Name match"
                 /\ l.res.results[1].matchReasons[a].variation = AuroraDress
            /\ ReasonsOf("SKU match", l.res.results[1].matchReasons) # <<>>

\* the handlers whose fetch loop pages by since_id
IdLoops == {"server", "testnames"}

\* the condition of the fetch loop, as the handler of the request has it
IdLoopGuard(l) ==
  IF l.handler = "server" THEN ServerLoopGuard(l.hasMore, l.pageCount)
  ELSE TestNamesLoopGuard(l.hasMore)

\* the number of entries the first k answers brought
Accumulated(l, k) ==
  Cardinality(UNION { {<<j, i>> : i \in 1..Len(l.pageIds[j])} : j \in 1..k })

\* answer k of the request is a successful page with no entry
ZeroPage(l, k) == l.pageAnswers[k] = "ok" /\ Len(l.pageIds[k]) = 0

\* answer k gives the loop a reason to stop: it has no entry, the entries
\* accumulated with it reach the total that was fetched, or it is the answer
\* to the last page the cap allows
StopsAfter(l, k) ==
  \/ ZeroPage(l, k)
  \/ Has(l.countData, "count") /\ Accumulated(l, k) >= l.countData.count
  \/ l.handler = "server" /\ k >= ServerPageCap

\* C15 as the code has it: no page request follows an answer that failed or
\* that gives a reason to stop; the loop goes on exactly while the last
\* answer gives none; and the request is over only after a reason to stop or
\* a failed request.
LoopStopsWhenDone ==
  \A r \in Requests :
    req[r].handler \in IdLoops
      => LET l == req[r]
             n == Len(l.pageAnswers)
         IN /\ \A k \in 1..n :
                 k < PageRequests(l) => l.pageAnswers[k] = "ok" /\ ~StopsAfter(l, k)
            /\ l.pc \in {"loop", "pause"} /\ n = 0 => IdLoopGuard(l)
            /\ l.pc \in {"loop", "pause"} /\ n > 0
                 => (IdLoopGuard(l) <=> ~StopsAfter(l, n))
            /\ l.pc = "done" /\ n > 0
                 => l.pageAnswers[n] # "ok" \/ StopsAfter(l, n)

\* the loop has stopped on a page without entries, after pages that had some
LoopStoppedByEmptyPage ==
  \E r \in Requests :
    /\ req[r].handler \in IdLoops
    /\ req[r].pc = "loop"
    /\ ~IdLoopGuard(req[r])
    /\ PageRequests(req[r]) >= 2
    /\ Len(req[r].pageAnswers) = PageRequests(req[r])
    /\ ZeroPage(req[r], Len(req[r].pageAnswers))

\* C15 as stated: once a page is answered, the loop goes on to the next page
\* request unless the page had no entry, the total is reached or the cap is.
LoopGoesOnUnlessDone ==
  \A r \in Requests :
    LET l == req[r]
        n == Len(l.pageAnswers)
    IN /\ l.handler \in IdLoops
       /\ n > 0
       /\ n = PageRequests(l)
       /\ ~StopsAfter(l, n)
       => l.pc \in {"loop", "pause"} /\ IdLoopGuard(l)

\* the remote catalog fills exactly one page of the size the handlers ask for
FullPage ==
  Len(remote.products) = PageLimit /\ remote.pageLen >= PageLimit /\ ~remote.stuck

\* the fetch loop of the request is over and every page request succeeded
FetchComplete(l) ==
  /\ l.pageAnswers # <<>>
  /\ \A k \in 1..Len(l.pageAnswers) : l.pageAnswers[k] = "ok"
  /\ l.pc \notin {"awaitPage", "pause"}
  /\ l.handler = "server"
       => ~(l.pc = "loop" /\ ServerLoopGuard(l.hasMore, l.pageCount))
  /\ l.handler = "part001"
       => ~(l.pc = "loop" /\ Part001LoopGuard(l.hasNextPage, l.pageCount))

\* the count answer lets the server.js loop stop after a page of PageLimit
CountStopsFullPage(l) ==
  Has(l.countData, "count") /\ l.countData.count <= PageLimit

\* C16 as the code has it: with a catalog of exactly 250 entries a complete
\* fetch holds the 250 entries; fetchAllProducts of part_001 makes one page
\* request; the since_id loop of server.js makes one when the count answer
\* reported at most 250, and otherwise a second one, answered with no entry.
OnePageForFullPage ==
  \A r \in Requests :
    LET l == req[r]
    IN (FullPage /\ l.handler \in {"server", "part001"} /\ FetchComplete(l))
         => /\ Len(l.allProducts) = PageLimit
            /\ PageRequests(l) =
                 IF l.handler = "server" /\ ~CountStopsFullPage(l) THEN 2 ELSE 1
            /\ PageRequests(l) = 2 => ZeroPage(l, 2)

\* C16 witness: server.js answered with success after one page request that
\* brought the 250 entries of the catalog
FullPageFetchedInOneRequest ==
  \E r \in Requests :
    /\ FullPage
    /\ req[r].handler = "server"
    /\ CountStopsFullPage(req[r])
    /\ Succeeded(req[r])
    /\ PageRequests(req[r]) = 1
    /\ Len(req[r].pageIds[1]) = PageLimit

\* C16 as stated: with a catalog of exactly 250 entries a complete fetch
\* makes exactly one page request
OnePageRequestForFullPage ==
  \A r \in Requests :
    (FullPage /\ req[r].handler \in {"server", "part001"} /\ FetchComplete(req[r]))
      => PageRequests(req[r]) = 1

\* the product-page requests the request has made, in order
PageSent(l) == SelectSeq(l.sent, LAMBDA m : m.kind = "page")

\* the greatest of the ids answer k brought
MaxIdOf(l, k) == Max({l.pageIds[k][j] : j \in 1..Len(l.pageIds[k])})

\* C17: in the since_id loops of server.js the first page request carries
\* since_id 0, and page request k+1 carries the greatest id of the entries in
\* the answer to page request k, which is not empty: not an id of an earlier
\* page, and not the id of the entry that happens to be last in the answer.
SinceIdFollowsMaxId ==
  \A r \in Requests :
    LET l == req[r]
    IN l.handler \in IdLoops
         => \A k \in 1..Len(PageSent(l)) :
              IF k = 1 THEN PageSent(l)[k].since_id = 0
              ELSE /\ l.pageAnswers[k - 1] = "ok"
                   /\ l.pageIds[k - 1] # <<>>
                   /\ PageSent(l)[k].since_id = MaxIdOf(l, k - 1)

\* C17 witness: server.js got a first page whose last entry does not have
\* the greatest id, and asked for the second page after the greatest id
SinceIdAfterUnsortedPage ==
  \E r \in Requests :
    LET l == req[r]
    IN /\ l.handler = "server"
       /\ Len(PageSent(l)) >= 2
       /\ l.pageIds[1][Len(l.pageIds[1])] < MaxIdOf(l, 1)
       /\ PageSent(l)[2].since_id = MaxIdOf(l, 1)

\* C18: in the since_id loop of server.js the pauses are taken after pages
\* 10, 20, ... only, once each and in that order, and every page request
\* 10k+1 (k >= 1) comes after the pause that followed the answer to page 10k;
\* so no pause lies between any other two consecutive page requests.
PauseAfterEveryTenth ==
  \A r \in Requests :
    LET l == req[r]
    IN l.handler = "server"
         => /\ \A j \in 1..Len(l.delays) :
                 l.delays[j] = PauseEvery * j /\ l.delays[j] <= Len(PageSent(l))
            /\ \A n \in 2..Len(PageSent(l)) :
                 (n - 1) % PauseEvery = 0
                   => \E j \in 1..Len(l.delays) : l.delays[j] = n - 1
            /\ l.pc = "pause" => Len(l.delays) = (l.pageCount \div PauseEvery) - 1

\* C18 witness: the eleventh page request has been made, after one pause,
\* which was taken after ten pages
EleventhPageAfterPause ==
  \E r \in Requests :
    /\ req[r].handler = "server"
    /\ Len(PageSent(req[r])) = PauseEvery + 1
    /\ req[r].delays = <<PauseEvery>>

\* matching has started or is over for the request
Matching(l) == l.pc = "match" \/ l.i > 0 \/ l.results # <<>>

\* the fetch loop of the request would make one more page request
FetchGoesOn(l) ==
  IF l.handler = "server" THEN ServerLoopGuard(l.hasMore, l.pageCount)
  ELSE Part000LoopGuard(l.hasNextPage, l.pageCount)

\* C19: in server.js and part_000, once a request is matching queries every
\* page request it made has been answered with success, its fetch loop has
\* nothing left to do, and no page request comes after an inventory lookup
\* of the matching: matching never runs before or between page requests.
MatchAfterFetch ==
  \A r \in Requests :
    LET l == req[r]
    IN (l.handler \in Matchers /\ Matching(l))
         => /\ Len(l.pageAnswers) = Len(PageSent(l))
            /\ \A k \in 1..Len(l.pageAnswers) : l.pageAnswers[k] = "ok"
            /\ ~FetchGoesOn(l)
            /\ \A j \in 1..Len(l.sent) : \A k \in j..Len(l.sent) :
                 l.sent[j].kind = "inventory" => l.sent[k].kind # "page"

\* C19 witness: part_000 matched a query and looked its inventory up, after
\* the page request of its fetch was answered
LookupAfterLastPage ==
  \E r \in Requests :
    LET l == req[r]
    IN /\ l.handler = "part000"
       /\ Len(PageSent(l)) >= 1
       /\ l.pageAnswers = <<"ok">>
       /\ l.results # <<>>
       /\ l.sent[Len(l.sent)].kind = "inventory"

\* C20: a page request that is answered with a non-success status or that
\* throws is the last product-page request of its request: nothing is asked
\* again, neither the same page nor a later one.
FailedPageEndsFetch ==
  \A r \in Requests :
    LET l == req[r]
    IN \A k \in 1..Len(l.pageAnswers) :
         l.pageAnswers[k] # "ok"
           => /\ k = Len(l.pageAnswers)
              /\ Len(PageSent(l)) = k
              /\ l.pc \notin {"awaitPage", "pause"}
              /\ l.handler = "server" => l.pc = "done"
              /\ l.handler = "part001"
                   => ~(l.pc = "loop" /\ Part001LoopGuard(l.hasNextPage, l.pageCount))

\* C20 witness: fetchAllProducts of part_001 had its second page request
\* fail, and the request was answered without a third
AnsweredAfterFailedPage ==
  \E r \in Requests :
    LET l == req[r]
    IN /\ l.handler = "part001"
       /\ Len(l.pageAnswers) = 2
       /\ l.pageAnswers[2] # "ok"
       /\ Len(PageSent(l)) = 2
       /\ l.pc = "done"

\* the request is over and its fetch loop ended with every page request
\* answered with success
AnsweredAfterFetch(l) ==
  /\ l.pc = "done"
  /\ l.pageAnswers # <<>>
  /\ \A k \in 1..Len(l.pageAnswers) : l.pageAnswers[k] = "ok"

\* C21: once the catalog has been fetched, matching and aggregation never end
\* in the error answer (status 500), whatever the catalog entries and the
\* query records lack.
MatchingNeverFails ==
  \A r \in Requests :
    (req[r].handler \in Matchers /\ AnsweredAfterFetch(req[r]))
      => req[r].res.status = 200

\* entry is, field by field, an entry of the remote's catalog
AsFetched(entry) ==
  \E j \in 1..Len(remote.products) : entry = remote.products[j]

\* C22: the catalog a request holds stays as it was fetched: during and after
\* matching every entry of allProducts equals, in every field of the entry
\* and of its variants, the entry the remote returned.
CatalogUnchangedByMatching ==
  \A r \in Requests :
    req[r].handler \in Matchers
      => \A k \in 1..Len(req[r].allProducts) : AsFetched(req[r].allProducts[k])

\* the catalog the request works with: allProducts in server.js, the products
\* of fetchProductsWithInventory in part_001
CatalogUsed(l) == IF l.handler = "server" THEN l.allProducts ELSE l.products

\* the catalog the request works with is made of the entries its own page
\* requests brought
OwnCatalog(l) ==
  /\ Len(CatalogUsed(l)) = Accumulated(l, Len(l.pageIds))
  /\ {CatalogUsed(l)[k].id : k \in 1..Len(CatalogUsed(l))}
       = UNION { {l.pageIds[j][i] : i \in 1..Len(l.pageIds[j])} :
                 j \in 1..Len(l.pageIds) }

\* C23: requests do not interfere: whatever another request does, a request
\* of server.js or part_001 that has its catalog has made the first page
\* request, as it does when it runs alone, and works with the entries its
\* own page requests brought.
RequestsIndependent ==
  \A r \in Requests :
    LET l == req[r]
    IN /\ (l.handler = "server" /\ l.pc = "done") => OwnCatalog(l)
       /\ (l.handler = "part001" /\ l.pc = "fetched")
            => PageSent(l) # <<>> /\ OwnCatalog(l)

\* the fetch loop of the request ended early: a page request failed, or the
\* page cap stopped a loop that had more to ask for
EndedEarly(l) ==
  \/ \E k \in 1..Len(l.pageAnswers) : l.pageAnswers[k] # "ok"
  \/ l.handler = "server" /\ l.hasMore /\ l.pageCount >= ServerPageCap
  \/ l.handler = "part001" /\ l.hasNextPage /\ l.pageCount >= Part001PageCap

\* the response body says that the catalog is partial
SaysPartial(res) == Has(res, "partial") \/ Has(res, "warning")

\* C24: a request of server.js or part_001 whose fetch loop ended early is
\* answered with a failure or with a body that says the catalog is partial,
\* never with an ordinary success.
TruncatedNeverPlainSuccess ==
  \A r \in Requests :
    LET l == req[r]
    IN (l.handler \in {"server", "part001"} /\ l.pc = "done" /\ EndedEarly(l))
         => (l.res.status # 200 \/ SaysPartial(l.res))

\* the handlers that page through the catalog with page_info
CursorLoops == {"part000", "part001", "part002"}

\* the page a page_info token asks for
PageAsked(pageInfo) == IF pageInfo = NoCursor THEN 1 ELSE pageInfo[1]

\* the token of the link marked rel="next" in the answer to page k
NextToken(k) ==
  LET links == CursorLinks(Min(PageLimit, remote.pageLen), k)
  IN links[CHOOSE j \in 1..Len(links) : links[j].rel = "next"].page_info

\* C25: under page_info pagination every page request after the first
\* carries the token of the rel="next" link of the answer to the request
\* before it, also when that answer lists a rel="previous" link first.
NextLinkTokenUsed ==
  \A r \in Requests :
    LET l == req[r]
    IN l.handler \in CursorLoops
         => \A k \in 2..Len(PageSent(l)) :
              PageSent(l)[k].page_info
                = NextToken(PageAsked(PageSent(l)[k - 1].page_info))

\* the page requests the model lets an uncapped loop make have been made and
\* the loop is about to ask for one more
StillAsking(l) ==
  /\ l.pc = "loop"
  /\ Len(PageSent(l)) >= MaxPages
  /\ \/ l.handler = "testnames" /\ TestNamesLoopGuard(l.hasMore)
     \/ l.handler = "part002all" /\ FetchAllLoopGuard(l.hasNextPage)

\* C26: the loops without a page cap stop by themselves: whatever the remote
\* answers, the since_id loop of test-names and fetchAllProducts of part_002
\* are never about to ask for yet another page after any number of pages.
UncappedLoopsStop ==
  \A r \in Requests : ~StillAsking(req[r])

\* the cache holds an 'all_products' entry that is less than TTL old
FreshEntry ==
  /\ AllProductsKey \in DOMAIN shopifyCache.products
  /\ AllProductsKey \in DOMAIN shopifyCache.timestamps
  /\ now - shopifyCache.timestamps[AllProductsKey] < TTL

\* request r of part_001 reads the cache in this step
ReadsCache(r) ==
  req[r].handler = "part001" /\ req[r].pc = "start" /\ req'[r].pc # "start"

\* request r of part_001 ends its fetch from the remote in this step
EndsFetch(r) ==
  /\ req[r].handler = "part001"
  /\ req[r].pc \in {"loop", "break"}
  /\ req'[r].pc = "fetched"

\* C27: fetchProductsWithInventory without handles takes the catalog from
\* the cache, and makes no page request from then on, exactly when the cache
\* holds an 'all_products' entry less than TTL old; otherwise it starts the
\* fetch loop, and when the loop has ended it stores what it fetched with
\* the time of the store.  Page requests are made from the loop only.
CacheServedWhileFresh ==
  [][\A r \in Requests :
       /\ ReadsCache(r)
            => IF FreshEntry
                 THEN /\ req'[r].pc = "fetched"
                      /\ req'[r].products = shopifyCache.products[AllProductsKey]
                      /\ req'[r].sent = <<>>
                 ELSE req'[r].pc = "loop"
       /\ EndsFetch(r)
            => /\ shopifyCache'.products[AllProductsKey] = req'[r].products
               /\ shopifyCache'.timestamps[AllProductsKey] = now
       /\ (req[r].handler = "part001" /\ PageSent(req[r]) # PageSent(req'[r]))
            => req[r].pc = "loop"
     ]_vars

\* C27 witness: a request is served the catalog from an entry one
\* millisecond short of TTL old, having made no request to the remote
ServedFromAgingEntry ==
  \E r \in Requests :
    /\ req[r].handler = "part001"
    /\ req[r].pc = "fetched"
    /\ req[r].sent = <<>>
    /\ FreshEntry
    /\ now - shopifyCache.timestamps[AllProductsKey] = TTL - 1
    /\ req[r].products = shopifyCache.products[AllProductsKey]

\* C28: the 'all_products' entry of the cache is the whole catalog of the
\* remote: what a fetch cut short by a failed page request or by the page cap
\* has collected is never stored.
CacheHoldsCompleteCatalog ==
  (AllProductsKey \in DOMAIN shopifyCache.products /\ ~remote.stuck)
    => shopifyCache.products[AllProductsKey] = remote.products

\* the request has stored the catalog it fetched in the cache
StoredItsFetch(l) ==
  /\ l.handler = "part001"
  /\ l.pc \in {"fetched", "chunks", "respond", "done"}
  /\ PageSent(l) # <<>>

\* C29: a request whose fetch was under way when the cache was cleared does
\* not put what it fetched into the cleared cache.
NoStoreAfterClear ==
  \A r \in Requests : ~(req[r].cleared /\ StoredItsFetch(req[r]))

\* every answer so far brought only entries with an id greater than the
\* since_id its request carried
RespectsSinceId(l) ==
  \A k \in 1..Len(l.pageIds) :
    \A j \in 1..Len(l.pageIds[k]) : l.pageIds[k][j] > PageSent(l)[k].since_id

\* C30: in the since_id loops, while the remote has answered with entries
\* beyond the since_id asked for only, each page request carries a since_id
\* greater than the one before it and no id occurs twice in allProducts.
SinceIdIncreases ==
  \A r \in Requests :
    LET l == req[r]
    IN (l.handler \in IdLoops /\ RespectsSinceId(l))
         => /\ \A k \in 2..Len(PageSent(l)) :
                 PageSent(l)[k].since_id > PageSent(l)[k - 1].since_id
            /\ Cardinality({l.allProducts[k].id : k \in 1..Len(l.allProducts)})
                 = Len(l.allProducts)

\* C30 witness: server.js has collected the entries of two pages, the second
\* asked for with a greater since_id than the first
TwoPagesCollected ==
  \E r \in Requests :
    LET l == req[r]
    IN /\ l.handler = "server"
       /\ RespectsSinceId(l)
       /\ Len(PageSent(l)) = 2
       /\ Len(l.pageIds) = 2
       /\ l.pageIds[1] # <<>> /\ l.pageIds[2] # <<>>
       /\ Len(l.allProducts) = Len(l.pageIds[1]) + Len(l.pageIds[2])

=============================================================================
